---- MODULE Spec2Model ----
(***************************************************************************)
(* A model of the BPMN-to-graph pipeline of bpmn_neo4j:                    *)
(*   validators/schema_validator.py        validate_schema and its repairs *)
(*   validators/bpmn_semantic_validator.py validate_semantics              *)
(*   transformers/transform_input_elements.py  normalize_flow_elements     *)
(*   transformers/nodes.py, edges.py       generate_nodes, generate_edges  *)
(*                                                                         *)
(* Python dictionaries are functions whose DOMAIN is the set of keys that  *)
(* are present; lists are sequences; None is the value NoneVal.  Strings   *)
(* that the code builds by formatting are looked up in tables, so that a   *)
(* built id is a different value from the id it was built from.            *)
(***************************************************************************)
EXTENDS Integers, Sequences, FiniteSets, TLC

VARIABLES
    pc,          \* position of the run: which operation acts next
    elements,    \* the element set handed to generate_nodes / generate_edges
    cypher,      \* the statement list the generators return
    all_flows,   \* generate_edges: the rewritten flow list
    real_nodes,  \* generate_edges: ids of activities, events, invisible tasks
    seen_edges,  \* generate_edges: the (source, target) pairs already emitted
    calls,       \* history: the calls of add_edge, as (a_id, b_id, flow id)
    args,        \* the call: the document as passed, the parameters, the files
    data,        \* the document object, which the validators change in place
    printed,     \* the kinds of message validate_schema has printed
    ret,         \* what validate_schema did: returned a value or raised
    semantics    \* validate_semantics: errors, warnings and what it did

edges_vars == <<cypher, all_flows, real_nodes, seen_edges, calls>>
validator_vars == <<args, data, printed, ret, semantics>>
vars == <<pc, elements, edges_vars, validator_vars>>

\* Python's None.
NoneVal == "<None>"

(***************************************************************************)
(* Bounds of the model.                                                    *)
(***************************************************************************)
\* Longest flow list of the general input family of generate_edges.
MaxFlows == 3
\* Most branches of the gateway in the split scenario family.
MaxBranches == 3
\* Longest element list of the id family of documents.
MaxElements == 3
\* Most sequence flows of the flow family of documents.
MaxSeqFlows == 2
\* Longest flow list handed to detect_cycle alone.
MaxCycleFlows == 3
\* Most activities of a decoded element set handed to a generator alone.
MaxDecoded == 2
\* Largest batch size handed to batch_output.
MaxBatch == 3
\* Longest element list handed to fix_duplicate_ids alone.
MaxRepeats == 4
\* Longest flow list of the label input family of generate_edges.
MaxLabelFlows == 2
MaxMessageFlows == 1

\* What a call has done so far: nothing yet, returned a value, or raised.
Pending == [kind |-> "pending", value |-> NoneVal]
Returned(v) == [kind |-> "return", value |-> v]
Raised(e) == [kind |-> "raise", value |-> e]

\* A run of generate_edges alone has no validator call.
NoArgs == [entry |-> "generate_edges"]

(***************************************************************************)
(* Sequence helpers.                                                       *)
(***************************************************************************)
Range(s) == {s[i] : i \in DOMAIN s}

IndexOf(s, x) == CHOOSE i \in DOMAIN s : s[i] = x

(***************************************************************************)
(* Python dictionaries.                                                    *)
(***************************************************************************)
EmptyDict == <<>>

\* d.get(k, default)
Get(d, k, default) == IF k \in DOMAIN d THEN d[k] ELSE default

\* d[k] = v
Put(d, k, v) == [x \in (DOMAIN d) \cup {k} |-> IF x = k THEN v ELSE d[x]]

(***************************************************************************)
(* Strings.  str.lower() and the substring test `sub in s` are tables over *)
(* the type and name strings the model uses.                               *)
(***************************************************************************)
Lower(s) ==
    CASE s = "userTask" -> "usertask"
      [] s = "serviceTask" -> "servicetask"
      [] s = "startEvent" -> "startevent"
      [] s = "endEvent" -> "endevent"
      [] s = "exclusiveGateway" -> "exclusivegateway"
      [] s = "parallelGateway" -> "parallelgateway"
      [] s = "inclusiveGateway" -> "inclusivegateway"
      [] s = "eventBasedGateway" -> "eventbasedgateway"
      [] s = "complexGateway" -> "complexgateway"
      [] s = "sequenceFlow" -> "sequenceflow"
      [] s = "messageFlow" -> "messageflow"
      [] s = "Exclusive Gateway" -> "exclusive gateway"
      [] s = "Event Gateway" -> "event gateway"
      [] OTHER -> s

\* The substrings the code tests for, of each lower-case string of the model.
SubstringsOf(s) ==
    CASE s = "usertask" -> {"task"}
      [] s = "servicetask" -> {"task"}
      [] s = "task" -> {"task"}
      [] s = "startevent" -> {"event", "startevent", "start"}
      [] s = "endevent" -> {"event", "endevent", "end"}
      [] s = "exclusivegateway" -> {"gateway", "exclusivegateway", "exclusive"}
      [] s = "parallelgateway" -> {"gateway", "parallelgateway", "parallel"}
      [] s = "inclusivegateway" -> {"gateway", "inclusivegateway", "inclusive"}
      [] s = "complexgateway" -> {"gateway", "complexgateway", "complex"}
      [] s = "eventbasedgateway" -> {"gateway", "eventbasedgateway", "event"}
      [] s = "gateway" -> {"gateway"}
      [] s = "sequenceflow" -> {"flow", "sequenceflow"}
      [] s = "messageflow" -> {"flow", "messageflow", "message"}
      [] s = "exclusive gateway" -> {"gateway", "exclusive"}
      [] s = "event gateway" -> {"gateway", "event"}
      [] OTHER -> {}

\* sub in s
Contains(sub, s) == sub = "" \/ sub = s \/ sub \in SubstringsOf(s)

(***************************************************************************)
(* The id oracle: uuid.uuid4() yields a fresh value at every call, so the  *)
(* k-th invisible task of a run gets the k-th id of this list, none of     *)
(* which is an id of the input.                                            *)
(***************************************************************************)
InvisibleIds ==
    <<"invisible_1", "invisible_2", "invisible_3", "invisible_4",
      "invisible_5", "invisible_6">>

InvisibleId(k) == InvisibleIds[k]

\* The ids of the flows of the model, and f"{id}_inv_in", f"{id}_inv_out".
FlowIdSeq == <<"f1", "f2", "f3", "f4", "f5", "f6", NoneVal>>
InvInSeq ==
    <<"f1_inv_in", "f2_inv_in", "f3_inv_in", "f4_inv_in", "f5_inv_in",
      "f6_inv_in", "None_inv_in">>
InvOutSeq ==
    <<"f1_inv_out", "f2_inv_out", "f3_inv_out", "f4_inv_out", "f5_inv_out",
      "f6_inv_out", "None_inv_out">>

InvInId(id) == InvInSeq[IndexOf(FlowIdSeq, id)]
InvOutId(id) == InvOutSeq[IndexOf(FlowIdSeq, id)]

(***************************************************************************)
(* edges.py: the gateway map, gateway directions and gateway labels.       *)
(***************************************************************************)
\* The type one gateway gets in the map: its gateway_type, lower case, or
\* else the type its name suggests.
GatewayTypeOf(gw) ==
    LET gw_type == Lower(IF Get(gw, "gateway_type", NoneVal) = NoneVal
                         THEN "" ELSE gw["gateway_type"])
        gw_name == Lower(IF Get(gw, "name", NoneVal) = NoneVal
                         THEN "" ELSE gw["name"])
    IN  IF gw_type # "" THEN gw_type
        ELSE IF gw_name # "" /\ Contains("event", gw_name) THEN "eventbasedgateway"
        ELSE IF gw_name # "" /\ Contains("complex", gw_name) THEN "complexgateway"
        ELSE IF gw_name # "" /\ Contains("exclusive", gw_name) THEN "exclusivegateway"
        ELSE IF gw_name # "" /\ Contains("parallel", gw_name) THEN "parallelgateway"
        ELSE IF gw_name # "" /\ Contains("inclusive", gw_name) THEN "inclusivegateway"
        ELSE "gateway"

\* build_gateway_map: gateway id -> type; a later gateway of the same id
\* overwrites an earlier one.
build_gateway_map(els) ==
    LET gws == Get(els, "gateways", <<>>)
        ids == {Get(gws[i], "id", NoneVal) : i \in DOMAIN gws}
        last(id) == CHOOSE i \in DOMAIN gws :
                        /\ Get(gws[i], "id", NoneVal) = id
                        /\ \A j \in DOMAIN gws :
                              Get(gws[j], "id", NoneVal) = id => j <= i
    IN  [id \in ids |-> GatewayTypeOf(gws[last(id)])]

\* The flows' endpoints, as the code reads them.
Src(f) == Get(f, "source", NoneVal)
Tgt(f) == Get(f, "target", NoneVal)

\* outgoing.get(n, []) and incoming.get(n, []) of the maps built from `flows`:
\* the targets (sources) of the flows that leave (enter) n, in flow order.
RECURSIVE OutList(_, _)
OutList(flows, n) ==
    IF flows = <<>> THEN <<>>
    ELSE (IF Src(Head(flows)) = n THEN <<Tgt(Head(flows))>> ELSE <<>>)
         \o OutList(Tail(flows), n)

RECURSIVE InList(_, _)
InList(flows, n) ==
    IF flows = <<>> THEN <<>>
    ELSE (IF Tgt(Head(flows)) = n THEN <<Src(Head(flows))>> ELSE <<>>)
         \o InList(Tail(flows), n)

\* n in outgoing, n in incoming
InOutgoing(flows, n) == \E i \in DOMAIN flows : Src(flows[i]) = n
InIncoming(flows, n) == \E i \in DOMAIN flows : Tgt(flows[i]) = n

\* The direction with the fan-out test off by one.
classify_gateway_direction_off_by_one(gateway_id, flows, gateway_type) ==
    IF gateway_type # NoneVal /\ gateway_type # ""
       /\ Lower(gateway_type) = "eventbasedgateway"
    THEN "SPLIT"
    ELSE IF Len(OutList(flows, gateway_id)) > 2 THEN "SPLIT"
    ELSE IF Len(InList(flows, gateway_id)) > 1 THEN "JOIN"
    ELSE "SINGLE"

classify_gateway_direction(gateway_id, flows, gateway_type) ==
    IF gateway_type # NoneVal /\ gateway_type # ""
       /\ Lower(gateway_type) = "eventbasedgateway"
    THEN "SPLIT"
    ELSE LET in_count == Len(InList(flows, gateway_id))
             out_count == Len(OutList(flows, gateway_id))
         IN  IF out_count > 1 THEN "SPLIT"
             ELSE IF in_count > 1 THEN "JOIN"
             ELSE "SINGLE"

GatewayPrefix(base_type) ==
    CASE Lower(base_type) = "exclusivegateway" -> "XOR"
      [] Lower(base_type) = "parallelgateway" -> "AND"
      [] Lower(base_type) = "inclusivegateway" -> "OR"
      [] Lower(base_type) = "complexgateway" -> "COMPLEX"
      [] Lower(base_type) = "eventbasedgateway" -> "EVENT_BASED"
      [] OTHER -> "GATEWAY"

\* f"{prefix}_{direction}"
PrefixDirection(prefix, direction) ==
    CASE prefix = "XOR" /\ direction = "SPLIT" -> "XOR_SPLIT"
      [] prefix = "XOR" /\ direction = "JOIN" -> "XOR_JOIN"
      [] prefix = "AND" /\ direction = "SPLIT" -> "AND_SPLIT"
      [] prefix = "AND" /\ direction = "JOIN" -> "AND_JOIN"
      [] prefix = "OR" /\ direction = "SPLIT" -> "OR_SPLIT"
      [] prefix = "OR" /\ direction = "JOIN" -> "OR_JOIN"
      [] prefix = "COMPLEX" /\ direction = "SPLIT" -> "COMPLEX_SPLIT"
      [] prefix = "COMPLEX" /\ direction = "JOIN" -> "COMPLEX_JOIN"
      [] prefix = "EVENT_BASED" /\ direction = "SPLIT" -> "EVENT_BASED_SPLIT"
      [] prefix = "EVENT_BASED" /\ direction = "JOIN" -> "EVENT_BASED_JOIN"
      [] prefix = "GATEWAY" /\ direction = "SPLIT" -> "GATEWAY_SPLIT"
      [] prefix = "GATEWAY" /\ direction = "JOIN" -> "GATEWAY_JOIN"

gateway_label(base_type, direction) ==
    LET prefix == GatewayPrefix(base_type)
        dir == IF Lower(base_type) = "eventbasedgateway" THEN "SPLIT"
               ELSE direction
    IN  IF dir \in {"SPLIT", "JOIN"} THEN PrefixDirection(prefix, dir)
        ELSE prefix

(***************************************************************************)
(* edges.py, generate_edges: gateway chains and invisible tasks.           *)
(***************************************************************************)
\* The statements of the output.  A node statement carries the node's label
\* (kind), id and type; an edge statement the two endpoint ids, the
\* relationship label and the id of the flow it was emitted for.
NodeStmt(kind, id, type) ==
    [kind |-> kind, id |-> id, type |-> type, a |-> NoneVal, b |-> NoneVal]

EdgeStmt(a_id, b_id, rel_name, flow_id) ==
    [kind |-> "Edge", id |-> flow_id, type |-> rel_name, a |-> a_id, b |-> b_id]

\* elements.get("flows", []) + elements.get("flows_by_type", {}).get("message_flows", [])
original_flows(els) ==
    Get(els, "flows", <<>>)
        \o Get(Get(els, "flows_by_type", EmptyDict), "message_flows", <<>>)

\* The test with `or` in place of `and`.
IsGatewayFlowEither(f, gateway_map) ==
    Src(f) \in DOMAIN gateway_map \/ Tgt(f) \in DOMAIN gateway_map

IsGatewayFlow(f, gateway_map) ==
    Src(f) \in DOMAIN gateway_map /\ Tgt(f) \in DOMAIN gateway_map

\* The gateways that an original flow links to another gateway.
gateway_chains(flows, gateway_map) ==
    UNION {{Src(flows[i]), Tgt(flows[i])} :
              i \in {j \in DOMAIN flows : IsGatewayFlow(flows[j], gateway_map)}}

\* SplitFlow that forgets to retarget the first flow.
SplitFlowKeepsTarget(f, invisible_id) ==
    <<Put(f, "id", InvInId(f["id"])),
      Put(Put(f, "id", InvOutId(f["id"])), "source", invisible_id)>>

\* The two flows that replace the gateway-to-gateway flow f, through the
\* invisible task invisible_id.
SplitFlow(f, invisible_id) ==
    <<Put(Put(f, "id", InvInId(f["id"])), "target", invisible_id),
      Put(Put(f, "id", InvOutId(f["id"])), "source", invisible_id)>>

\* The loop without its else: the gateway-to-gateway flow stays in the list
\* next to the two flows that replace it.
RECURSIVE RewriteFlows_keeping_original(_, _, _)
RewriteFlows_keeping_original(flows, gateway_map, acc) ==
    IF flows = <<>> THEN acc
    ELSE RewriteFlows_keeping_original(Tail(flows), gateway_map,
            IF IsGatewayFlow(Head(flows), gateway_map)
            THEN [new_flows |->
                      acc.new_flows
                      \o SplitFlow(Head(flows),
                                   InvisibleId(Len(acc.invisible_tasks) + 1))
                      \o <<Head(flows)>>,
                  invisible_tasks |->
                      Append(acc.invisible_tasks,
                             InvisibleId(Len(acc.invisible_tasks) + 1))]
            ELSE [new_flows |-> Append(acc.new_flows, Head(flows)),
                  invisible_tasks |-> acc.invisible_tasks])

\* The loop over the original flows: acc holds the rewritten flows and the
\* ids of the invisible tasks made so far.
RECURSIVE RewriteFlows(_, _, _)
RewriteFlows(flows, gateway_map, acc) ==
    IF flows = <<>> THEN acc
    ELSE RewriteFlows(Tail(flows), gateway_map,
            IF IsGatewayFlow(Head(flows), gateway_map)
            THEN [new_flows |->
                      acc.new_flows
                      \o SplitFlow(Head(flows),
                                   InvisibleId(Len(acc.invisible_tasks) + 1)),
                  invisible_tasks |->
                      Append(acc.invisible_tasks,
                             InvisibleId(Len(acc.invisible_tasks) + 1))]
            ELSE [new_flows |-> Append(acc.new_flows, Head(flows)),
                  invisible_tasks |-> acc.invisible_tasks])

\* The ids of the activities and events.
DeclaredRealNodes(els) ==
    LET nodes == Get(els, "activities", <<>>) \o Get(els, "events", <<>>)
    IN  {Get(nodes[i], "id", NoneVal) : i \in DOMAIN nodes}

\* The CREATE statement of each invisible task.
InvisibleStmts(invisible_tasks) ==
    [i \in DOMAIN invisible_tasks |->
        NodeStmt("Activity", invisible_tasks[i], "InvisibleTask")]

\* The directions computed without the gateway types.
gateway_directions_ignoring_type(flows, gateway_map) ==
    [gid \in DOMAIN gateway_map |->
        classify_gateway_direction(gid, flows, NoneVal)]

gateway_directions(flows, gateway_map) ==
    [gid \in DOMAIN gateway_map |->
        classify_gateway_direction(gid, flows, gateway_map[gid])]

(***************************************************************************)
(* edges.py, generate_edges: the walks through non-real nodes.  `visited`  *)
(* is one set shared by all the calls of a walk, and what a call returns   *)
(* is appended to its caller's list: acc.vis is the visited set and        *)
(* acc.res the nodes found so far, in the order the walk finds them.       *)
(* acc.trace lists the calls that passed the visited test, in order: the   *)
(* nodes whose flows the walk has gone through.                            *)
(***************************************************************************)
NewWalk == [res |-> <<>>, vis |-> {}, trace |-> <<>>]

RECURSIVE find_real_targets(_, _, _, _)
RECURSIVE TargetsLoop(_, _, _, _)
RECURSIVE TargetsLoop_visited_copied(_, _, _, _)
find_real_targets(flows, real, node_id, acc) ==
    IF node_id \in acc.vis THEN acc
    ELSE TargetsLoop(flows, real, OutList(flows, node_id),
                     [res |-> acc.res, vis |-> acc.vis \cup {node_id},
                      trace |-> Append(acc.trace, node_id)])

\* The loop with find_real_targets(tgt, set(visited)): what a nested call
\* visits is not seen by the calls after it.
TargetsLoop_visited_copied(flows, real, outs, acc) ==
    IF outs = <<>> THEN acc
    ELSE TargetsLoop_visited_copied(flows, real, Tail(outs),
            IF Head(outs) \in real
            THEN [acc EXCEPT !.res = Append(@, Head(outs))]
            ELSE IF InOutgoing(flows, Head(outs))
                 THEN [find_real_targets(flows, real, Head(outs), acc)
                          EXCEPT !.vis = acc.vis]
                 ELSE acc)

TargetsLoop(flows, real, outs, acc) ==
    IF outs = <<>> THEN acc
    ELSE TargetsLoop(flows, real, Tail(outs),
            IF Head(outs) \in real
            THEN [acc EXCEPT !.res = Append(@, Head(outs))]
            ELSE IF InOutgoing(flows, Head(outs))
                 THEN find_real_targets(flows, real, Head(outs), acc)
                 ELSE acc)

RECURSIVE find_real_sources(_, _, _, _)
RECURSIVE SourcesLoop(_, _, _, _)
RECURSIVE SourcesLoop_through_real(_, _, _, _)
find_real_sources(flows, real, node_id, acc) ==
    IF node_id \in acc.vis THEN acc
    ELSE SourcesLoop(flows, real, InList(flows, node_id),
                     [res |-> acc.res, vis |-> acc.vis \cup {node_id},
                      trace |-> Append(acc.trace, node_id)])

\* The loop that goes on through a real node after taking it.
SourcesLoop_through_real(flows, real, ins, acc) ==
    IF ins = <<>> THEN acc
    ELSE SourcesLoop_through_real(flows, real, Tail(ins),
            IF Head(ins) \in real
            THEN find_real_sources(flows, real, Head(ins),
                                   [acc EXCEPT !.res = Append(@, Head(ins))])
            ELSE IF InIncoming(flows, Head(ins))
                 THEN find_real_sources(flows, real, Head(ins), acc)
                 ELSE acc)

SourcesLoop(flows, real, ins, acc) ==
    IF ins = <<>> THEN acc
    ELSE SourcesLoop(flows, real, Tail(ins),
            IF Head(ins) \in real
            THEN [acc EXCEPT !.res = Append(@, Head(ins))]
            ELSE IF InIncoming(flows, Head(ins))
                 THEN find_real_sources(flows, real, Head(ins), acc)
                 ELSE acc)

\* The calls the edge pass makes: a fresh visited set each.
RealTargets(flows, real, n) == find_real_targets(flows, real, n, NewWalk).res
RealSources(flows, real, n) == find_real_sources(flows, real, n, NewWalk).res

(***************************************************************************)
(* edges.py, generate_edges: the edge pass.                                *)
(***************************************************************************)
\* The labels that are Python identifiers after upper-casing; every other
\* label becomes FLOW.
IdentifierLabels ==
    {"SEQUENCE_FLOW", "MESSAGE_FLOW", "GATEWAY", "XOR", "AND", "OR",
     "COMPLEX", "EVENT_BASED", "FLOW"}
    \cup {PrefixDirection(p, d) :
            p \in {"XOR", "AND", "OR", "COMPLEX", "EVENT_BASED", "GATEWAY"},
            d \in {"SPLIT", "JOIN"}}

SanitizeLabel(rel_name) ==
    IF rel_name \in IdentifierLabels THEN rel_name ELSE "FLOW"

\* x or y
OrElse(x, y) == IF x = NoneVal \/ x = "" THEN y ELSE x

\* The label of a flow: rel_name (sanitized), gtype, direction, gateway_id.
Label(rel_name, gtype, direction, gateway_id) ==
    [rel_name |-> SanitizeLabel(rel_name), gtype |-> gtype,
     direction |-> direction, gateway_id |-> gateway_id]

\* (flow.get("flow_type") or flow.get("type") or "").lower()
FlowTypeOf(flow) ==
    Lower(OrElse(OrElse(Get(flow, "flow_type", NoneVal),
                        Get(flow, "type", NoneVal)), ""))

\* The label with the message flow test ahead of the source_name test.
FlowLabel_message_before_name(flow, gateway_map, directions) ==
    IF Src(flow) \in DOMAIN gateway_map
    THEN Label(gateway_label(gateway_map[Src(flow)], directions[Src(flow)]),
               gateway_map[Src(flow)], directions[Src(flow)], Src(flow))
    ELSE IF Tgt(flow) \in DOMAIN gateway_map
    THEN Label(gateway_label(gateway_map[Tgt(flow)], directions[Tgt(flow)]),
               gateway_map[Tgt(flow)], directions[Tgt(flow)], Tgt(flow))
    ELSE IF Contains("messageflow", FlowTypeOf(flow))
    THEN Label("MESSAGE_FLOW", "", "", "")
    ELSE IF Contains("gateway", Lower(OrElse(Get(flow, "source_name", NoneVal), "")))
    THEN Label(gateway_label("gateway", "SINGLE"), "gateway", "SINGLE", Src(flow))
    ELSE Label("SEQUENCE_FLOW", "", "", "")

\* rel_name, gtype, direction and gateway_id of one rewritten flow.
FlowLabel(flow, gateway_map, directions) ==
    IF Src(flow) \in DOMAIN gateway_map
    THEN Label(gateway_label(gateway_map[Src(flow)], directions[Src(flow)]),
               gateway_map[Src(flow)], directions[Src(flow)], Src(flow))
    ELSE IF Tgt(flow) \in DOMAIN gateway_map
    THEN Label(gateway_label(gateway_map[Tgt(flow)], directions[Tgt(flow)]),
               gateway_map[Tgt(flow)], directions[Tgt(flow)], Tgt(flow))
    ELSE IF Contains("gateway", Lower(OrElse(Get(flow, "source_name", NoneVal), "")))
    THEN Label(gateway_label("gateway", "SINGLE"), "gateway", "SINGLE", Src(flow))
    ELSE Label(IF Contains("messageflow", FlowTypeOf(flow))
               THEN "MESSAGE_FLOW" ELSE "SEQUENCE_FLOW", "", "", "")

\* [(x, t) for t in targets], [(s, x) for s in sources]
RECURSIVE PairsFrom(_, _)
PairsFrom(x, targets) ==
    IF targets = <<>> THEN <<>>
    ELSE <<<<x, Head(targets)>>>> \o PairsFrom(x, Tail(targets))

RECURSIVE PairsTo(_, _)
PairsTo(sources, x) ==
    IF sources = <<>> THEN <<>>
    ELSE <<<<Head(sources), x>>>> \o PairsTo(Tail(sources), x)

\* The pairs with their ends exchanged: (t, s) for (s, t).
RECURSIVE PairsCross_exchanged(_, _)
PairsCross_exchanged(sources, targets) ==
    IF sources = <<>> THEN <<>>
    ELSE PairsTo(targets, Head(sources)) \o PairsCross_exchanged(Tail(sources), targets)

\* [(s, t) for s in sources for t in targets]
RECURSIVE PairsCross(_, _)
PairsCross(sources, targets) ==
    IF sources = <<>> THEN <<>>
    ELSE PairsFrom(Head(sources), targets) \o PairsCross(Tail(sources), targets)

\* The event-based gateway branch: the flow's own source is the edge's source.
EventBasedPairs(flows, real, src, tgt) ==
    PairsFrom(src, IF tgt \in real THEN <<tgt>> ELSE RealTargets(flows, real, tgt))

\* The calls of add_edge that one rewritten flow leads to, in order.
FlowPairs(flow, flows, real, chains, gtype) ==
    LET src == Src(flow)
        tgt == Tgt(flow)
    IN  IF gtype = "eventbasedgateway"
        THEN EventBasedPairs(flows, real, src, tgt)
        ELSE IF src \in real /\ tgt \notin real
        THEN IF tgt \in chains /\ Len(OutList(flows, src)) # 1
             THEN <<>>
             ELSE PairsFrom(src, RealTargets(flows, real, tgt))
        ELSE IF src \notin real /\ tgt \in real
        THEN IF src \in chains /\ Len(InList(flows, tgt)) # 1
             THEN <<>>
             ELSE PairsTo(RealSources(flows, real, src), tgt)
        ELSE IF src \notin real /\ tgt \notin real
        THEN PairsCross(RealSources(flows, real, src),
                        RealTargets(flows, real, tgt))
        ELSE <<<<src, tgt>>>>

\* add_edge without the test of seen_edges.
add_edge_unchecked(st, a_id, b_id, rel_name, flow_id) ==
    [cypher |-> Append(st.cypher, EdgeStmt(a_id, b_id, rel_name, flow_id)),
     seen |-> st.seen \cup {<<a_id, b_id>>},
     calls |-> Append(st.calls, <<a_id, b_id, flow_id>>)]

\* add_edge: st is the statement list, the set of emitted pairs and the
\* history of the calls.
add_edge(st, a_id, b_id, rel_name, flow_id) ==
    IF <<a_id, b_id>> \notin st.seen
    THEN [cypher |-> Append(st.cypher, EdgeStmt(a_id, b_id, rel_name, flow_id)),
          seen |-> st.seen \cup {<<a_id, b_id>>},
          calls |-> Append(st.calls, <<a_id, b_id, flow_id>>)]
    ELSE [st EXCEPT !.calls = Append(st.calls, <<a_id, b_id, flow_id>>)]

RECURSIVE AddEdges(_, _, _, _)
AddEdges(st, pairs, rel_name, flow_id) ==
    IF pairs = <<>> THEN st
    ELSE AddEdges(add_edge(st, Head(pairs)[1], Head(pairs)[2], rel_name, flow_id),
                  Tail(pairs), rel_name, flow_id)

\* One turn of the loop: the flow's edges, under the flow's label lab.
EmitFlow(st, flow, lab, flows, real, chains) ==
    AddEdges(st, FlowPairs(flow, flows, real, chains, lab.gtype), lab.rel_name,
             Get(flow, "id", NoneVal))

\* The loop over the rewritten flows, from flow i on.
RECURSIVE EdgePass(_, _, _, _, _, _, _)
EdgePass(st, i, flows, real, chains, gateway_map, directions) ==
    IF i > Len(flows) THEN st
    ELSE EdgePass(EmitFlow(st, flows[i], FlowLabel(flows[i], gateway_map, directions),
                           flows, real, chains),
                  i + 1, flows, real, chains, gateway_map, directions)

(***************************************************************************)
(* schema_validator.py.  The document is a dictionary; validate_schema     *)
(* changes it in place.                                                    *)
(***************************************************************************)
\* not x, for an id or an endpoint: None and the empty string are false.
Falsy(x) == x = NoneVal \/ x = ""

ResultKeys == <<"flowElements", "messageFlows", "pools", "lanes">>

\* Lines 24-32: data["result"] = {} when it is missing, and an empty list
\* for each of the four collections that result lacks.
ShapeResult(d) ==
    LET result == Get(d, "result", EmptyDict)
    IN  Put(d, "result",
            [k \in (DOMAIN result) \cup Range(ResultKeys) |->
                IF k \in DOMAIN result THEN result[k] ELSE <<>>])

\* What lines 24-32 print.
ShapePrints(d) ==
    (IF "result" \in DOMAIN d THEN {} ELSE {"result missing"})
    \cup (IF \E k \in Range(ResultKeys) : k \notin DOMAIN Get(d, "result", EmptyDict)
          THEN {"result key missing"} ELSE {})

\* data["result"].get("flowElements", [])
FlowElementsOf(d) == Get(Get(d, "result", EmptyDict), "flowElements", <<>>)

\* The document with its result.flowElements replaced.
WithFlowElements(d, els) ==
    Put(d, "result", Put(Get(d, "result", EmptyDict), "flowElements", els))

\* f"element_{uuid.uuid4().hex[:6]}": the k-th id made in a run; uuid4 yields
\* a fresh value at every call.
ElementId(k) == "element_" \o ToString(k)

\* fix_missing_ids: every element without an id, or with an empty one, gets
\* a fresh id.  made: the number of ids made so far.
RECURSIVE fix_missing_ids(_, _, _)
fix_missing_ids(els, made, acc) ==
    IF els = <<>> THEN acc
    ELSE IF Falsy(Get(Head(els), "id", NoneVal))
    THEN fix_missing_ids(Tail(els), made + 1,
                         Append(acc, Put(Head(els), "id", ElementId(made + 1))))
    ELSE fix_missing_ids(Tail(els), made, Append(acc, Head(els)))

\* fix_duplicate_ids: one pass over the elements with a counter per id as
\* first read; the k-th repeat of iid is renamed f"{iid}_{k}".  The new id
\* is not entered in id_count nor compared with the ids of other elements.
RECURSIVE fix_duplicate_ids(_, _, _)
fix_duplicate_ids(els, id_count, acc) ==
    IF els = <<>> THEN acc
    ELSE LET iid == Get(Head(els), "id", NoneVal)
         IN  IF Falsy(iid)
             THEN fix_duplicate_ids(Tail(els), id_count, Append(acc, Head(els)))
             ELSE IF iid \in DOMAIN id_count
             THEN fix_duplicate_ids(Tail(els), Put(id_count, iid, id_count[iid] + 1),
                     Append(acc, Put(Head(els), "id",
                                     iid \o "_" \o ToString(id_count[iid] + 1))))
             ELSE fix_duplicate_ids(Tail(els), Put(id_count, iid, 0),
                                    Append(acc, Head(els)))

\* check_duplicate_ids: the non-empty ids that occur again, once per repeat.
check_duplicate_ids(els) ==
    SelectSeq([i \in DOMAIN els |->
                  IF /\ ~Falsy(Get(els[i], "id", NoneVal))
                     /\ \E j \in 1..(i - 1) :
                           Get(els[j], "id", NoneVal) = Get(els[i], "id", NoneVal)
                  THEN Get(els[i], "id", NoneVal) ELSE NoneVal],
              LAMBDA x : x # NoneVal)

\* Lines 38-44 on the shaped document.
RepairIds(d, auto_fix) ==
    IF auto_fix
    THEN WithFlowElements(d,
            fix_duplicate_ids(fix_missing_ids(FlowElementsOf(d), 0, <<>>),
                              EmptyDict, <<>>))
    ELSE d

RepairPrints(d, auto_fix) ==
    IF ~auto_fix /\ check_duplicate_ids(FlowElementsOf(d)) # <<>>
    THEN {"duplicate ids"} ELSE {}

\* Lines 47 and 173-179: the (source, target) pairs of the elements whose
\* type is "sequenceflow" in any case and that have both endpoints.
CycleEdges(els) ==
    LET flows == SelectSeq(els, LAMBDA f : Lower(Get(f, "type", "")) = "sequenceflow")
    IN  SelectSeq([i \in DOMAIN flows |->
                      <<Get(flows[i], "source", NoneVal), Get(flows[i], "target", NoneVal)>>],
                  LAMBDA e : ~Falsy(e[1]) /\ ~Falsy(e[2]))

\* The elements of a set as a list; the order of a Python set is arbitrary
\* and the result of detect_cycle does not depend on it.
RECURSIVE ListOf(_)
ListOf(S) ==
    IF S = {} THEN <<>>
    ELSE LET x == CHOOSE y \in S : TRUE IN <<x>> \o ListOf(S \ {x})

\* Lines 187-190: one less indegree for each neighbor; those that reach
\* zero are queued.
RECURSIVE Relax(_, _, _)
Relax(neighbors, indegree, freed) ==
    IF neighbors = <<>> THEN [indegree |-> indegree, freed |-> freed]
    ELSE Relax(Tail(neighbors),
               [indegree EXCEPT ![Head(neighbors)] = @ - 1],
               IF indegree[Head(neighbors)] = 1
               THEN Append(freed, Head(neighbors)) ELSE freed)

\* Lines 184-190: the number of nodes taken from the queue.
RECURSIVE Drain(_, _, _, _)
Drain(queue, indegree, visited, edges) ==
    IF queue = <<>> THEN visited
    ELSE \* graph[current]: the targets of the edges that leave current
         LET out == SelectSeq(edges, LAMBDA e : e[1] = Head(queue))
             r == Relax([i \in DOMAIN out |-> out[i][2]], indegree, <<>>)
         IN  Drain(Tail(queue) \o r.freed, r.indegree, visited + 1, edges)

\* Kahn's algorithm with the indegree counted per neighbor, not per flow:
\* parallel flows count once.
detect_cycle_indegree_per_neighbor(edges) ==
    LET nodes == {edges[i][1] : i \in DOMAIN edges} \cup {edges[i][2] : i \in DOMAIN edges}
        indegree == [n \in nodes |-> Cardinality({edges[i][1] : i \in {j \in DOMAIN edges : edges[j][2] = n}})]
    IN  Drain(ListOf({n \in nodes : indegree[n] = 0}), indegree, 0, edges)
            # Cardinality(nodes)

\* detect_cycle (Kahn's algorithm): true when some node is never taken.
detect_cycle(edges) ==
    LET nodes == {edges[i][1] : i \in DOMAIN edges} \cup {edges[i][2] : i \in DOMAIN edges}
        indegree == [n \in nodes |-> Cardinality({i \in DOMAIN edges : edges[i][2] = n})]
    IN  Drain(ListOf({n \in nodes : indegree[n] = 0}), indegree, 0, edges)
            # Cardinality(nodes)

CyclePrints(d) ==
    IF detect_cycle(CycleEdges(FlowElementsOf(d))) THEN {"cycle"} ELSE {"no cycle"}

\* jsonschema.validate: a schema descriptor is taken by the keys it requires
\* of every element of result.flowElements; the document conforms when
\* every element has them.
Conforms(d, required) ==
    \A i \in DOMAIN FlowElementsOf(d) : required \subseteq DOMAIN FlowElementsOf(d)[i]

\* generate_default_value of a string property of the idx-th element (from
\* 0): a generated id for "id", f"default_{key}" for another key.
generate_default_value(key, idx) ==
    IF key = "id"
    THEN "root_result_flowElements[" \o ToString(idx) \o "]_" \o ToString(idx + 1)
    ELSE "default_" \o key

\* auto_fix_schema: a copy of the document in which every required key an
\* element lacks has its default value.
auto_fix_schema(d, required) ==
    WithFlowElements(d,
        [i \in DOMAIN FlowElementsOf(d) |->
            [k \in (DOMAIN FlowElementsOf(d)[i]) \cup required |->
                IF k \in DOMAIN FlowElementsOf(d)[i]
                THEN FlowElementsOf(d)[i][k]
                ELSE generate_default_value(k, i - 1)]])

(***************************************************************************)
(* transform_input_elements.py.                                            *)
(***************************************************************************)
\* normalize_json_structure: each of the four collections that data.result
\* has is copied over the top-level key of the same name, in place.
normalize_json_structure(d) ==
    IF "result" \in DOMAIN d
    THEN [k \in (DOMAIN d) \cup ((DOMAIN d["result"]) \cap Range(ResultKeys)) |->
             IF k \in (DOMAIN d["result"]) \cap Range(ResultKeys)
             THEN d["result"][k] ELSE d[k]]
    ELSE d

\* (d.get(k, []) or [])
ListAt(d, k) == IF k \in DOMAIN d THEN d[k] ELSE <<>>

\* (d.get(k) or "") for a string
TextAt(d, k) == OrElse(Get(d, k, NoneVal), "")

\* flow_map.setdefault(fid, {})[k1] = v1; flow_map[fid][k2] = v2
SetEndpoint(flow_map, fid, k1, v1, k2, v2) ==
    Put(flow_map, fid, Put(Put(Get(flow_map, fid, EmptyDict), k1, v1), k2, v2))

RECURSIVE SetEndpoints(_, _, _, _, _, _)
SetEndpoints(flow_map, fids, k1, v1, k2, v2) ==
    IF fids = <<>> THEN flow_map
    ELSE SetEndpoints(SetEndpoint(flow_map, Head(fids), k1, v1, k2, v2),
                      Tail(fids), k1, v1, k2, v2)

\* The same for a message flow, whose own lists name its endpoints.
RECURSIVE SetOwnEndpoints(_, _, _, _, _)
SetOwnEndpoints(flow_map, fid, ends, k1, k2) ==
    IF ends = <<>> THEN flow_map
    ELSE SetOwnEndpoints(SetEndpoint(flow_map, fid, k1, Head(ends), k2, ""),
                         fid, Tail(ends), k1, k2)

\* map_flows_to_source_target: the endpoints of the flows, read from the
\* outgoing and incoming lists of the elements only.
RECURSIVE map_flows_to_source_target(_, _)
map_flows_to_source_target(els, flow_map) ==
    IF els = <<>> THEN flow_map
    ELSE LET el == Head(els)
             el_id == Get(el, "id", NoneVal)
             el_name == Get(el, "name", "")
         IN  IF Contains("messageflow", Lower(Get(el, "type", "")))
             THEN map_flows_to_source_target(Tail(els),
                      SetOwnEndpoints(
                          SetOwnEndpoints(flow_map, el_id, Get(el, "incoming", <<>>),
                                          "source", "source_name"),
                          el_id, Get(el, "outgoing", <<>>), "target", "target_name"))
             ELSE map_flows_to_source_target(Tail(els),
                      SetEndpoints(
                          SetEndpoints(flow_map, Get(el, "outgoing", <<>>),
                                       "source", el_id, "source_name", el_name),
                          Get(el, "incoming", <<>>),
                          "target", el_id, "target_name", el_name))

\* {key: val for ...}: keys[i] maps to vals[i]; a later entry of the same key
\* wins.
DictOf(keys, vals) ==
    [k \in {keys[i] : i \in DOMAIN keys} |->
        vals[CHOOSE i \in DOMAIN keys :
                 /\ keys[i] = k
                 /\ \A j \in DOMAIN keys : keys[j] = k => j <= i]]

\* [f(x) for x in s] for the two getters of the name maps.
IdsOf(s) == [i \in DOMAIN s |-> Get(s[i], "id", NoneVal)]
NamesOf(s) == [i \in DOMAIN s |-> Get(s[i], "name", "")]

IdOf(x) == Get(x, "id", NoneVal)
NameOf(x) == Get(x, "name", "")

\* The references of a pool: processRef, process_ref, processId and id.
PoolRefs(p) ==
    {Get(p, k, NoneVal) : k \in {"processRef", "process_ref", "processId", "id"}}
        \ {NoneVal, ""}

\* pool_name_by_ref: the name of the last pool that has the reference.
pool_name_by_ref(pools) ==
    [ref \in UNION {PoolRefs(pools[i]) : i \in DOMAIN pools} |->
        NameOf(pools[CHOOSE i \in DOMAIN pools :
                        /\ ref \in PoolRefs(pools[i])
                        /\ \A j \in DOMAIN pools : ref \in PoolRefs(pools[j]) => j <= i])]

\* _normalize_id
NormalizeId(val) ==
    IF Falsy(val) \/ Lower(val) \in {"none", "null"} THEN NoneVal ELSE val

\* The sub type of an element: its subType in lower case, or else the one
\* its type suggests.
SubTypeOf(el, el_type) ==
    IF Lower(TextAt(el, "subType")) # "" THEN Lower(TextAt(el, "subType"))
    ELSE IF Contains("startevent", el_type) THEN "startEvent"
    ELSE IF Contains("endevent", el_type) THEN "endEvent"
    ELSE IF Contains("intermediate", el_type) THEN "intermediateEvent"
    ELSE IF Contains("exclusivegateway", el_type) THEN "exclusiveGateway"
    ELSE IF Contains("parallelgateway", el_type) THEN "parallelGateway"
    ELSE IF Contains("inclusivegateway", el_type) THEN "inclusiveGateway"
    ELSE IF Contains("eventbasedgateway", el_type)
            \/ ~Falsy(Get(el, "eventGatewayType", NoneVal)) THEN "eventBasedGateway"
    ELSE ""

\* The generated process id: str(uuid.uuid4()).
GeneratedProcessId == "process_1"

\* props.get("pool_id") or el.get("pool_id") or el.get("process_id")
PoolIdOf(el) ==
    OrElse(OrElse(Get(Get(el, "properties", EmptyDict), "pool_id", NoneVal),
                  Get(el, "pool_id", NoneVal)),
           Get(el, "process_id", NoneVal))

\* props.get("lane_id") or el.get("lane_id")
LaneIdOf(el) ==
    OrElse(Get(Get(el, "properties", EmptyDict), "lane_id", NoneVal),
           Get(el, "lane_id", NoneVal))

\* What the loop knows of the document: the flow map, the elements by id,
\* the pool and lane names and the process ids.
NormalizeContext(d, els, process_id) ==
    [flow_map |-> map_flows_to_source_target(els, EmptyDict),
     element_by_id |-> DictOf(IdsOf(els), els),
     pool_name_by_id |-> DictOf(IdsOf(ListAt(d, "pools")), NamesOf(ListAt(d, "pools"))),
     pool_name_by_ref |-> pool_name_by_ref(ListAt(d, "pools")),
     lane_name_map |-> DictOf(IdsOf(ListAt(d, "lanes")), NamesOf(ListAt(d, "lanes"))),
     data_process_id |-> Get(d, "process_id", NoneVal),
     process_id |-> process_id]

\* Lines 111-142: pool_id, lane_id, pool_name and lane_name of an element.
PlaceOf(el, ctx) ==
    LET pool_id == NormalizeId(OrElse(PoolIdOf(el), Get(el, "processRef", NoneVal)))
        lane_id == NormalizeId(LaneIdOf(el))
        by_id == IF pool_id = NoneVal THEN ""
                 ELSE OrElse(OrElse(Get(ctx.pool_name_by_id, pool_id, NoneVal),
                                    Get(ctx.pool_name_by_ref, pool_id, NoneVal)), "")
        proc == OrElse(OrElse(Get(el, "process_id", NoneVal), ctx.data_process_id),
                       ctx.process_id)
    IN  [pool_id |-> pool_id,
         lane_id |-> lane_id,
         pool_name |-> IF by_id # "" THEN by_id
                       ELSE OrElse(OrElse(Get(ctx.pool_name_by_ref, proc, ""),
                                          Get(ctx.pool_name_by_ref, pool_id, "")), ""),
         lane_name |-> IF lane_id = NoneVal THEN ""
                       ELSE Get(ctx.lane_name_map, lane_id, "")]

\* Lines 166-183, for one endpoint element of a flow.
EndpointPlace(end_el, ctx) ==
    LET pool_id == NormalizeId(PoolIdOf(end_el))
        lane_id == NormalizeId(LaneIdOf(end_el))
    IN  [pool_name |-> OrElse(OrElse(OrElse(Get(ctx.pool_name_by_id, pool_id, NoneVal),
                                            Get(ctx.pool_name_by_ref, pool_id, NoneVal)),
                                     Get(ctx.pool_name_by_ref,
                                         Get(end_el, "process_id", NoneVal), NoneVal)),
                              ""),
         lane_name |-> IF lane_id = NoneVal THEN ""
                       ELSE Get(ctx.lane_name_map, lane_id, "")]

\* Lines 147-214: the flow record.  Its source and target are those of the
\* flow map; the element's own source and target keys are not read.
NormalFlow(el, el_type, sub_type, place, ctx) ==
    LET flow_info == Get(ctx.flow_map, IdOf(el), EmptyDict)
        source_id == Get(flow_info, "source", NoneVal)
        target_id == Get(flow_info, "target", NoneVal)
        source_el == Get(ctx.element_by_id, source_id, EmptyDict)
        target_el == Get(ctx.element_by_id, target_id, EmptyDict)
        src == EndpointPlace(source_el, ctx)
        tgt == EndpointPlace(target_el, ctx)
    IN  [id |-> IdOf(el),
         name |-> TextAt(el, "name"),
         type |-> OrElse(sub_type, el_type),
         flow_type |-> IF Contains("message", el_type)
                       THEN "messageflow" ELSE "sequenceflow",
         source |-> source_id,
         target |-> target_id,
         gateway_id |-> IF Contains("gateway", Lower(Get(source_el, "type", "")))
                        THEN source_id
                        ELSE IF Contains("gateway", Lower(Get(target_el, "type", "")))
                        THEN target_id ELSE NoneVal,
         source_name |-> Get(flow_info, "source_name", ""),
         target_name |-> Get(flow_info, "target_name", ""),
         pool_name |-> OrElse(OrElse(src.pool_name, tgt.pool_name), place.pool_name),
         lane_name |-> OrElse(OrElse(src.lane_name, tgt.lane_name), place.lane_name),
         source_pool_name |-> src.pool_name,
         target_pool_name |-> tgt.pool_name,
         source_lane_name |-> src.lane_name,
         target_lane_name |-> tgt.lane_name,
         process_id |-> ctx.process_id]

\* The fields that activities, gateways and events share.
NormalNode(el, el_type, place, ctx) ==
    [id |-> IdOf(el), name |-> TextAt(el, "name"), type |-> el_type,
     pool_id |-> place.pool_id, lane_id |-> place.lane_id,
     pool_name |-> place.pool_name, lane_name |-> place.lane_name,
     process_id |-> ctx.process_id]

\* Lines 86-262: the element goes to the list its type names, or nowhere.
NormalizeElement(res, el, ctx) ==
    LET el_type == Lower(TextAt(el, "type"))
        sub_type == SubTypeOf(el, el_type)
        place == PlaceOf(el, ctx)
        node == NormalNode(el, el_type, place, ctx)
    IN  IF Contains("flow", el_type)
        THEN [res EXCEPT !.flows = Append(@, NormalFlow(el, el_type, sub_type, place, ctx))]
        ELSE IF Contains("task", el_type)
        THEN [res EXCEPT !.activities = Append(@, node)]
        ELSE IF Contains("gateway", el_type)
        THEN [res EXCEPT !.gateways =
                 Append(@, [k \in (DOMAIN node) \cup {"gateway_type"} |->
                               IF k = "gateway_type"
                               THEN Lower(OrElse(OrElse(sub_type,
                                                        Get(el, "gateway_type", NoneVal)),
                                                 el_type))
                               ELSE node[k]])]
        ELSE IF Contains("event", el_type)
        THEN [res EXCEPT !.events =
                 Append(@, [k \in (DOMAIN node) \cup {"event_type"} |->
                               IF k = "event_type" THEN OrElse(sub_type, el_type)
                               ELSE node[k]])]
        ELSE res

RECURSIVE NormalizeElements(_, _, _)
NormalizeElements(res, els, ctx) ==
    IF els = <<>> THEN res
    ELSE NormalizeElements(NormalizeElement(res, Head(els), ctx), Tail(els), ctx)

\* Lines 267-284: the pools and lanes, reduced to id, name and type (and
\* process_ref for a pool).
NormalPools(pools) ==
    [i \in DOMAIN pools |->
        [id |-> IdOf(pools[i]), name |-> NameOf(pools[i]), type |-> "Pool",
         process_ref |-> Get(pools[i], "processRef", Get(pools[i], "process_ref", ""))]]

NormalLanes(lanes) ==
    [i \in DOMAIN lanes |->
        [id |-> IdOf(lanes[i]), name |-> NameOf(lanes[i]), type |-> "Lane"]]

\* normalize_flow_elements on the document that normalize_json_structure
\* returns.
normalize_flow_elements(d0) ==
    LET d == normalize_json_structure(d0)
        els == ListAt(d, "flowElements") \o ListAt(d, "messageFlows")
        process_id == OrElse(Get(d, "process_id", NoneVal), GeneratedProcessId)
        ctx == NormalizeContext(d, els, process_id)
        res == NormalizeElements([activities |-> <<>>, events |-> <<>>,
                                  gateways |-> <<>>, flows |-> <<>>], els, ctx)
    IN  [activities |-> res.activities,
         events |-> res.events,
         gateways |-> res.gateways,
         flows |-> res.flows,
         pools |-> NormalPools(ListAt(d, "pools")),
         lanes |-> NormalLanes(ListAt(d, "lanes")),
         process_id |-> process_id]

(***************************************************************************)
(* bpmn_semantic_validator.py.  A diagnostic is the code of its rule, what *)
(* it says and the id it is about.                                         *)
(***************************************************************************)
Diagnostic(code, what, about) == [code |-> code, what |-> what, about |-> about]

\* The concatenation of a list of lists.
RECURSIVE Flatten(_)
Flatten(ss) == IF ss = <<>> THEN <<>> ELSE Head(ss) \o Flatten(Tail(ss))

\* [e for e in flow_elements if word in e.get("type", "").lower()]
OfType(els, word) ==
    SelectSeq(els, LAMBDA e : Contains(word, Lower(Get(e, "type", ""))))

\* _resolve_endpoints: the explicit source (target), or else the first entry
\* of the incoming (outgoing) list.
ResolveSource(e) ==
    IF Falsy(Get(e, "source", NoneVal)) /\ Get(e, "incoming", <<>>) # <<>>
    THEN Head(e["incoming"]) ELSE Get(e, "source", NoneVal)

ResolveTarget(e) ==
    IF Falsy(Get(e, "target", NoneVal)) /\ Get(e, "outgoing", <<>>) # <<>>
    THEN Head(e["outgoing"]) ELSE Get(e, "target", NoneVal)

\* The keys of the incoming and outgoing maps, and their list lengths.
SemIncoming(flows) == {ResolveTarget(flows[i]) : i \in DOMAIN flows}
SemOutgoing(flows) == {ResolveSource(flows[i]) : i \in DOMAIN flows}
SemInCount(flows, id) == Cardinality({i \in DOMAIN flows : ResolveTarget(flows[i]) = id})
SemOutCount(flows, id) == Cardinality({i \in DOMAIN flows : ResolveSource(flows[i]) = id})

\* get_pool: the pool of the first flow element with the id, or None.
get_pool(els, node_id) ==
    IF \E i \in DOMAIN els : IdOf(els[i]) = node_id
    THEN LET node == els[CHOOSE i \in DOMAIN els :
                            /\ IdOf(els[i]) = node_id
                            /\ \A j \in 1..(i - 1) : IdOf(els[j]) # node_id]
         IN  OrElse(Get(Get(node, "properties", EmptyDict), "pool_id", NoneVal),
                    Get(node, "pool_id", NoneVal))
    ELSE NoneVal

\* Lines 57-70: the references and the pools of each flow.
FlowReferenceErrors(flows, valid_ids, els) ==
    Flatten([i \in DOMAIN flows |->
        (IF ResolveSource(flows[i]) \notin valid_ids
         THEN <<Diagnostic("BPMN 0101", "flow has invalid source", IdOf(flows[i]))>>
         ELSE <<>>)
        \o (IF ResolveTarget(flows[i]) \notin valid_ids
            THEN <<Diagnostic("BPMN 0102", "flow has invalid target", IdOf(flows[i]))>>
            ELSE <<>>)
        \o (IF /\ Lower(Get(flows[i], "type", "")) = "sequenceflow"
               /\ ~Falsy(get_pool(els, ResolveSource(flows[i])))
               /\ ~Falsy(get_pool(els, ResolveTarget(flows[i])))
               /\ get_pool(els, ResolveSource(flows[i]))
                      # get_pool(els, ResolveTarget(flows[i]))
            THEN <<Diagnostic("BPMN 0202", "sequence flow crosses pool boundary",
                              IdOf(flows[i]))>>
            ELSE <<>>)])

\* event.get("subType", "").lower() or event.get("type", "").lower()
EventTypeOf(e) == OrElse(Lower(Get(e, "subType", "")), Lower(Get(e, "type", "")))

validate_events(events, flows) ==
    Flatten([i \in DOMAIN events |->
        LET eid == IdOf(events[i])
            etype == EventTypeOf(events[i])
        IN  IF Contains("start", etype)
            THEN IF eid \in SemIncoming(flows)
                 THEN <<Diagnostic("BPMN 0105", "start event has incoming flow", eid)>>
                 ELSE <<>>
            ELSE IF Contains("end", etype)
            THEN IF eid \in SemOutgoing(flows)
                 THEN <<Diagnostic("BPMN 0124", "end event has outgoing flow", eid)>>
                 ELSE <<>>
            ELSE IF Contains("intermediate", etype)
            THEN IF Contains("throw", etype) /\ eid \notin SemOutgoing(flows)
                 THEN <<Diagnostic("BPMN 0114", "throw event has no outgoing flow", eid)>>
                 ELSE IF Contains("catch", etype) /\ eid \notin SemIncoming(flows)
                 THEN <<Diagnostic("BPMN 0113", "catch event has no incoming flow", eid)>>
                 ELSE <<>>
            ELSE <<>>])
    \o (IF Cardinality({i \in DOMAIN events :
                           Contains("start", EventTypeOf(events[i]))}) > 1
        THEN <<Diagnostic("Style 01106", "more than one start event", NoneVal)>>
        ELSE <<>>)

validate_activities(activities, flows) ==
    Flatten([i \in DOMAIN activities |->
        LET tid == IdOf(activities[i])
            tname == TextAt(activities[i], "name")
        IN  (IF tid \notin SemIncoming(flows)
             THEN <<Diagnostic("BPMN 0101", "task has no incoming flow", OrElse(tname, tid))>>
             ELSE <<>>)
            \o (IF tid \notin SemOutgoing(flows)
                THEN <<Diagnostic("BPMN 0102", "task has no outgoing flow", OrElse(tname, tid))>>
                ELSE <<>>)
            \o (IF tname = ""
                THEN <<Diagnostic("Style 0103", "task has no label", tid)>>
                ELSE <<>>)
            \o (IF tname # "" /\ \E j \in 1..(i - 1) : TextAt(activities[j], "name") = tname
                THEN <<Diagnostic("Style 0104", "duplicate task name", tname)>>
                ELSE <<>>)])

\* gw.get("subType", "").lower() or gw.get("gateway_type", "").lower()
SemGatewayType(gw) ==
    OrElse(Lower(Get(gw, "subType", "")), Lower(Get(gw, "gateway_type", "")))

validate_gateways(gateways, flows, events) ==
    Flatten([i \in DOMAIN gateways |->
        LET gid == IdOf(gateways[i])
            gtype == SemGatewayType(gateways[i])
            out == SelectSeq(flows, LAMBDA f : ResolveSource(f) = gid)
        IN  IF gtype \in {"exclusivegateway", "inclusivegateway"}
            THEN IF SemInCount(flows, gid) <= 1 /\ SemOutCount(flows, gid) < 2
                 THEN <<Diagnostic("BPMN 0134", "split needs two outgoing flows", gid)>>
                 ELSE <<>>
            ELSE IF gtype = "parallelgateway"
            THEN IF SemInCount(flows, gid) < 2 /\ SemOutCount(flows, gid) < 2
                 THEN <<Diagnostic("BPMN 0134", "parallel gateway needs two flows", gid)>>
                 ELSE <<>>
            ELSE IF gtype = "eventbasedgateway"
            THEN Flatten([k \in DOMAIN out |->
                    IF \E j \in DOMAIN events :
                          /\ IdOf(events[j]) = ResolveTarget(out[k])
                          /\ Contains("intermediatecatch",
                                      Lower(Get(events[j], "subType", "")))
                    THEN <<>>
                    ELSE <<Diagnostic("BPMN 0138", "target is no catch event", gid)>>])
            ELSE <<>>])

validate_orphan_nodes(nodes, flows) ==
    Flatten([i \in DOMAIN nodes |->
        IF IdOf(nodes[i]) \notin SemIncoming(flows)
           /\ IdOf(nodes[i]) \notin SemOutgoing(flows)
        THEN <<Diagnostic("Style", "node is orphaned", IdOf(nodes[i]))>>
        ELSE <<>>])

validate_pool_lane(nodes) ==
    Flatten([i \in DOMAIN nodes |->
        (IF Falsy(Get(Get(nodes[i], "properties", EmptyDict), "pool_id", NoneVal))
         THEN <<Diagnostic("Style", "node is in no pool", Get(nodes[i], "id", "<unknown>"))>>
         ELSE <<>>)
        \o (IF Falsy(Get(Get(nodes[i], "properties", EmptyDict), "lane_id", NoneVal))
            THEN <<Diagnostic("Style", "node is in no lane", Get(nodes[i], "id", "<unknown>"))>>
            ELSE <<>>)])

\* validate_message_flows: the errors and warnings of one message flow; the
\* first error ends the checks of the flow.
MessageFlowDiagnostics(mf, els) ==
    LET source == ResolveSource(mf)
        target == ResolveTarget(mf)
        known(id) == \E i \in DOMAIN els : IdOf(els[i]) = id
    IN  IF ~known(source)
        THEN [errors |-> <<Diagnostic("BPMN 0302", "message flow has invalid source",
                                      IdOf(mf))>>,
              warnings |-> <<>>]
        ELSE IF ~known(target)
        THEN [errors |-> <<Diagnostic("BPMN 0303", "message flow has invalid target",
                                      IdOf(mf))>>,
              warnings |-> <<>>]
        ELSE [errors |->
                 IF ~Falsy(get_pool(els, source))
                    /\ get_pool(els, source) = get_pool(els, target)
                 THEN <<Diagnostic("BPMN 0301", "message flow within one pool", IdOf(mf))>>
                 ELSE <<>>,
              warnings |->
                 IF Get(mf, "name", "") = ""
                 THEN <<Diagnostic("Style 0304", "message flow has no label", IdOf(mf))>>
                 ELSE <<>>]

validate_message_flows(message_flows, els) ==
    [errors |-> Flatten([i \in DOMAIN message_flows |->
                            MessageFlowDiagnostics(message_flows[i], els).errors]),
     warnings |-> Flatten([i \in DOMAIN message_flows |->
                              MessageFlowDiagnostics(message_flows[i], els).warnings])]

validate_event_labels(events) ==
    Flatten([i \in DOMAIN events |->
        LET etype == Lower(Get(events[i], "subType", ""))
            unnamed == TextAt(events[i], "name") = ""
        IN  (IF Contains("start", etype) /\ unnamed
             THEN <<Diagnostic("Style 01105", "start event has no label", IdOf(events[i]))>>
             ELSE <<>>)
            \o (IF Contains("end", etype) /\ unnamed
                THEN <<Diagnostic("Style 0129", "end event has no label", IdOf(events[i]))>>
                ELSE <<>>)])

validate_gateway_labels(gateways, flows) ==
    Flatten([i \in DOMAIN gateways |->
        LET unlabeled == Cardinality({k \in DOMAIN flows :
                             /\ ResolveSource(flows[k]) = IdOf(gateways[i])
                             /\ Get(flows[k], "name", "") = ""})
        IN  IF unlabeled > 1
            THEN <<Diagnostic("Style 0135", "several unlabeled gates", IdOf(gateways[i]))>>
            ELSE IF unlabeled = 1
            THEN <<Diagnostic("Style 0136", "an unlabeled gate", IdOf(gateways[i]))>>
            ELSE <<>>])

\* Lines 7-77: the errors and the warnings collected before the message
\* flows are read.
NodeDiagnostics(d) ==
    LET els == Get(Get(d, "result", EmptyDict), "flowElements", <<>>)
        activities == OfType(els, "task")
        events == OfType(els, "event")
        gateways == OfType(els, "gateway")
        flows == OfType(els, "flow")
        nodes == activities \o events \o gateways
    IN  [errors |-> FlowReferenceErrors(flows, {IdOf(nodes[i]) : i \in DOMAIN nodes}, els)
                    \o validate_events(events, flows)
                    \o validate_activities(activities, flows)
                    \o validate_gateways(gateways, flows, events)
                    \o validate_orphan_nodes(nodes, flows),
         warnings |-> validate_pool_lane(nodes)]

\* Lines 79-94: with those of the message flows, the event labels and the
\* gateway labels.
CollectDiagnostics(d) ==
    LET result == Get(d, "result", EmptyDict)
        els == Get(result, "flowElements", <<>>)
        msg == validate_message_flows(Get(result, "messageFlows", <<>>), els)
    IN  [errors |-> NodeDiagnostics(d).errors \o msg.errors,
         warnings |-> NodeDiagnostics(d).warnings
                      \o msg.warnings
                      \o validate_event_labels(OfType(els, "event"))
                      \o validate_gateway_labels(OfType(els, "gateway"),
                                                 OfType(els, "flow"))]

\* What a call of validate_semantics did, with the errors and warnings it
\* had collected.
SemanticsOutcome(diagnostics, kind, value) ==
    [errors |-> diagnostics.errors, warnings |-> diagnostics.warnings,
     kind |-> kind, value |-> value]

\* validate_semantics: line 231 reads n["id"] of every flow element and
\* raises KeyError when one has no id; line 112 raises in strict mode when
\* there are errors; otherwise the function ends without a return
\* statement, so the call yields None.
validate_semantics(d, strict) ==
    IF \E i \in DOMAIN FlowElementsOf(d) : "id" \notin DOMAIN FlowElementsOf(d)[i]
    THEN SemanticsOutcome(NodeDiagnostics(d), "raise", "KeyError")
    ELSE IF strict /\ CollectDiagnostics(d).errors # <<>>
    THEN SemanticsOutcome(CollectDiagnostics(d), "raise", "ValueError")
    ELSE SemanticsOutcome(CollectDiagnostics(d), "return", NoneVal)

(***************************************************************************)
(* generate_edges as two steps: lines 66-166 (the gateway map, the gateway *)
(* chains, the invisible tasks and their statements) and lines 199-321     *)
(* (the edge pass over the rewritten flows).                               *)
(***************************************************************************)
SynthesizeInvisibleTasks ==
    /\ pc = "edges_start"
    /\ \E gateway_map \in {build_gateway_map(elements)} :
       \E rw \in {RewriteFlows(original_flows(elements), gateway_map,
                               [new_flows |-> <<>>, invisible_tasks |-> <<>>])} :
           /\ all_flows' = rw.new_flows
           /\ cypher' = cypher \o InvisibleStmts(rw.invisible_tasks)
           /\ real_nodes' = DeclaredRealNodes(elements) \cup Range(rw.invisible_tasks)
    /\ seen_edges' = {}
    /\ pc' = "edges_pass"
    /\ UNCHANGED <<elements, calls, validator_vars>>

\* The edge pass with the CREATE loop of the invisible tasks placed after
\* it: the edge statements come first.
EmitEdges_before_tasks ==
    /\ pc = "edges_pass"
    /\ \E gateway_map \in {build_gateway_map(elements)} :
       \E chains \in {gateway_chains(original_flows(elements), gateway_map)} :
       \E directions \in {gateway_directions(all_flows, gateway_map)} :
       \E st \in {EdgePass([cypher |-> cypher, seen |-> seen_edges, calls |-> calls],
                           1, all_flows, real_nodes, chains, gateway_map,
                           directions)} :
           /\ cypher' = SubSeq(st.cypher, Len(cypher) + 1, Len(st.cypher)) \o cypher
           /\ seen_edges' = st.seen
           /\ calls' = st.calls
    /\ pc' = "done"
    /\ UNCHANGED <<elements, all_flows, real_nodes, validator_vars>>

EmitEdges ==
    /\ pc = "edges_pass"
    /\ \E gateway_map \in {build_gateway_map(elements)} :
       \E chains \in {gateway_chains(original_flows(elements), gateway_map)} :
       \E directions \in {gateway_directions(all_flows, gateway_map)} :
       \E st \in {EdgePass([cypher |-> cypher, seen |-> seen_edges, calls |-> calls],
                           1, all_flows, real_nodes, chains, gateway_map,
                           directions)} :
           /\ cypher' = st.cypher
           /\ seen_edges' = st.seen
           /\ calls' = st.calls
    /\ pc' = "done"
    /\ UNCHANGED <<elements, all_flows, real_nodes, validator_vars>>

(***************************************************************************)
(* nodes.py.                                                               *)
(***************************************************************************)
\* generate_nodes: an Activity statement for each activity, then an Event
\* statement for each event; gateways, flows, pools and lanes get none.
generate_nodes(els) ==
    [i \in DOMAIN Get(els, "activities", <<>>) |->
        NodeStmt("Activity", els["activities"][i]["id"], els["activities"][i]["type"])]
    \o [i \in DOMAIN Get(els, "events", <<>>) |->
           NodeStmt("Event", els["events"][i]["id"], els["events"][i]["type"])]

(***************************************************************************)
(* pool_lanes.py.                                                          *)
(***************************************************************************)
\* The MATCH ... CREATE (l)-[:BELONGS_TO]->(p) statement of a lane.
BelongsToStmt(lane_id, pool_id) ==
    [kind |-> "BelongsTo", id |-> lane_id, type |-> "BELONGS_TO",
     a |-> lane_id, b |-> pool_id]

\* Lines 10-23: the Lane statement of one lane and, when the lane has a
\* pool_id that is not empty, the relation to that pool right after it.
LaneStmts(lane) ==
    <<NodeStmt("Lane", lane["id"], Get(lane, "type", ""))>>
    \o (IF Falsy(Get(lane, "pool_id", ""))
        THEN <<>>
        ELSE <<BelongsToStmt(lane["id"], lane["pool_id"])>>)

\* generate_pools_lanes: a Pool statement for each pool, then the statements
\* of each lane.
generate_pools_lanes(els) ==
    [i \in DOMAIN Get(els, "pools", <<>>) |->
        NodeStmt("Pool", els["pools"][i]["id"], Get(els["pools"][i], "type", ""))]
    \o Flatten([i \in DOMAIN Get(els, "lanes", <<>>) |-> LaneStmts(els["lanes"][i])])

(***************************************************************************)
(* The subscripts of the generators: x['k'] raises KeyError when the       *)
(* dictionary x has no key k.                                              *)
(***************************************************************************)
\* Some dictionary of the list lacks one of the keys.
KeyErrorIn(list, keys) == \E i \in DOMAIN list : ~(keys \subseteq DOMAIN list[i])

\* nodes.py lines 10, 12, 27, 29, 58, 60.
generate_nodes_raises(els) ==
    \/ KeyErrorIn(Get(els, "pools", <<>>), {"id"})
    \/ KeyErrorIn(Get(els, "lanes", <<>>), {"id"})
    \/ KeyErrorIn(Get(els, "activities", <<>>), {"id", "type"})
    \/ KeyErrorIn(Get(els, "events", <<>>), {"id", "type"})

\* pool_lanes.py lines 6, 13.
generate_pools_lanes_raises(els) ==
    \/ KeyErrorIn(Get(els, "pools", <<>>), {"id"})
    \/ KeyErrorIn(Get(els, "lanes", <<>>), {"id"})

\* edges.py lines 109, 113: f['id'] of a gateway-to-gateway flow.
generate_edges_raises(els) ==
    KeyErrorIn(SelectSeq(original_flows(els),
                         LAMBDA f : IsGatewayFlow(f, build_gateway_map(els))),
               {"id"})

(***************************************************************************)
(* The pipeline: validate_schema, validate_semantics, normalization, pool  *)
(* and lane generation, node generation and edge generation, one after the *)
(* other on one document.                                                  *)
(* validate_schema is three steps: lines 13-18 (the schema descriptor is   *)
(* read), lines 24-44 (shaping and id repair) and lines 47-74 (the cycle   *)
(* check, the second read of the descriptor and the validation).           *)
(***************************************************************************)
\* The schema descriptors of the model, each taken by the keys it requires
\* of an element: one that requires nothing and one that requires an id and
\* a name.
Schemas == {{}, {"id", "name"}}

\* Lines 13-18: the packaged descriptor, or the file at schema_path, can or
\* cannot be read.
LoadSchema ==
    /\ pc = "schema_load"
    /\ \E readable \in BOOLEAN :
          IF readable
          THEN pc' = "schema_shape" /\ ret' = ret
          ELSE pc' = "raised" /\ ret' = Raised("OSError")
    /\ UNCHANGED <<elements, edges_vars, args, data, printed, semantics>>

ShapeAndRepair ==
    /\ pc = "schema_shape"
    /\ data' = RepairIds(ShapeResult(data), args.auto_fix)
    /\ printed' = printed \cup ShapePrints(data)
                          \cup RepairPrints(ShapeResult(data), args.auto_fix)
    /\ pc' = "schema_check"
    /\ UNCHANGED <<elements, edges_vars, args, ret, semantics>>

\* Line 54 opens schema_path whatever it is: open(None) raises TypeError.
\* The caller binds the returned document.
ValidateAgainstSchema ==
    /\ pc = "schema_check"
    /\ IF args.schema_path = NoneVal
       THEN /\ ret' = Raised("TypeError")
            /\ printed' = printed \cup CyclePrints(data)
            /\ pc' = "raised"
            /\ data' = data
       ELSE \E required \in Schemas :
            \E fixed \in {IF Conforms(data, required) \/ ~args.auto_fix
                          THEN data ELSE auto_fix_schema(data, required)} :
                /\ ret' = Returned(fixed)
                /\ printed' = printed \cup CyclePrints(data)
                                \cup (IF Conforms(data, required)
                                      THEN {"valid"} ELSE {"invalid"})
                /\ pc' = "semantics"
                /\ data' = fixed
    /\ UNCHANGED <<elements, edges_vars, args, semantics>>

\* validate_semantics(data) or validate_semantics(data, strict=True).
ValidateSemantics ==
    /\ pc = "semantics"
    /\ \E strict \in BOOLEAN :
       \E outcome \in {validate_semantics(data, strict)} :
           /\ semantics' = [strict |-> strict] @@ outcome
           /\ pc' = IF outcome.kind = "raise" THEN "raised" ELSE "normalize"
    /\ UNCHANGED <<elements, edges_vars, args, data, printed, ret>>

\* normalize_flow_elements(data): the element set, and the document as
\* normalize_json_structure leaves it.
NormalizeFlowElements ==
    /\ pc = "normalize"
    /\ elements' = normalize_flow_elements(data)
    /\ data' = normalize_json_structure(data)
    /\ pc' = "pools_lanes"
    /\ UNCHANGED <<edges_vars, args, printed, ret, semantics>>

\* generate_pools_lanes(elements): the first statements of the sequence.
GeneratePoolsLanes ==
    /\ pc = "pools_lanes"
    /\ cypher' = generate_pools_lanes(elements)
    /\ pc' = "nodes"
    /\ UNCHANGED <<elements, all_flows, real_nodes, seen_edges, calls, validator_vars>>

GenerateNodes ==
    /\ pc = "nodes"
    /\ cypher' = cypher \o generate_nodes(elements)
    /\ pc' = "edges_start"
    /\ UNCHANGED <<elements, all_flows, real_nodes, seen_edges, calls, validator_vars>>

(***************************************************************************)
(* The inputs of generate_edges.  Every element set declares the tasks t1  *)
(* and t2 and the events start and end.  The general family takes every    *)
(* flow list of at most MaxFlows flows among t1, t2, g1 and g2, where g1   *)
(* is an exclusive or an event-based gateway and g2 is a parallel gateway  *)
(* or is not declared at all.  The scenario families are the XOR split     *)
(* (S2) and the gateway chain (S3) with their flows in every order.        *)
(***************************************************************************)
Node(id, type) == [id |-> id, type |-> type]

Gateway(id, gateway_type) ==
    [id |-> id, gateway_type |-> gateway_type]

Flow(id, source, target) ==
    [id |-> id, flow_type |-> "sequenceflow", source |-> source, target |-> target]

\* The flows of a list of (source, target) pairs, the i-th with the i-th id.
FlowsOf(pairs) ==
    [i \in DOMAIN pairs |-> Flow(FlowIdSeq[i], pairs[i][1], pairs[i][2])]

Elements(gateways, flows) ==
    [activities |-> <<Node("t1", "usertask"), Node("t2", "servicetask")>>,
     events |-> <<Node("start", "startevent"), Node("end", "endevent")>>,
     gateways |-> gateways,
     flows |-> flows,
     pools |-> <<>>,
     lanes |-> <<>>]

GeneralIds == {"t1", "t2", "g1", "g2"}

GatewayLists ==
    {<<Gateway("g1", t)>> : t \in {"exclusivegateway", "eventbasedgateway"}}
    \cup {<<Gateway("g1", t), Gateway("g2", "parallelgateway")>> :
            t \in {"exclusivegateway", "eventbasedgateway"}}

\* generate_edges reads of an activity its id only, so the two tasks are
\* interchangeable: of two lists that differ by exchanging t1 and t2, the one
\* that names t1 no later than t2 is taken.
NamesT1First(pairs) ==
    \A i \in DOMAIN pairs :
        "t2" \in {pairs[i][1], pairs[i][2]} =>
            \E j \in 1..i : "t1" \in {pairs[j][1], pairs[j][2]}

GeneralPairLists ==
    {pairs \in UNION {[1..n -> GeneralIds \X GeneralIds] : n \in 0..MaxFlows} :
        NamesT1First(pairs)}

IsGeneralInput(els) ==
    \E gws \in GatewayLists, pairs \in GeneralPairLists :
        els = Elements(gws, FlowsOf(pairs))

\* The orders of a list: its permutations.
Orders(n) == {p \in [1..n -> 1..n] : \A i, j \in 1..n : p[i] = p[j] => i = j}

Reorder(s, p) == [i \in DOMAIN s |-> s[p[i]]]

\* S2: start -> g1, and g1 -> t for two or more real nodes t.
SplitPairs ==
    {<<<<"start", "g1">>>> \o [i \in DOMAIN ts |-> <<"g1", ts[i]>>] :
        ts \in UNION {[1..n -> {"t1", "t2", "end"}] : n \in 2..MaxBranches}}

IsSplitInput(els) ==
    \E pairs \in SplitPairs :
        \E p \in Orders(Len(pairs)) :
            els = Elements(<<Gateway("g1", "exclusivegateway")>>,
                           Reorder(FlowsOf(pairs), p))

\* S3: start -> g1 (XOR) -> g2 (AND) -> t1 -> end.
ChainPairs ==
    <<<<"start", "g1">>, <<"g1", "g2">>, <<"g2", "t1">>, <<"t1", "end">>>>

IsChainInput(els) ==
    \E p \in Orders(4) :
        els = Elements(<<Gateway("g1", "exclusivegateway"),
                         Gateway("g2", "parallelgateway")>>,
                       Reorder(FlowsOf(ChainPairs), p))

Init ==
    /\ pc = "edges_start"
    /\ \/ IsGeneralInput(elements)
       \/ IsSplitInput(elements)
       \/ IsChainInput(elements)
    /\ cypher = <<>>
    /\ all_flows = <<>>
    /\ real_nodes = {}
    /\ seen_edges = {}
    /\ calls = <<>>
    /\ args = NoArgs
    /\ data = EmptyDict
    /\ printed = {}
    /\ ret = Pending
    /\ semantics = Pending

Next == SynthesizeInvisibleTasks \/ EmitEdges

Spec == Init /\ [][Next]_vars

(***************************************************************************)
(* generate_edges on the general family alone, for what is claimed of the  *)
(* walks and of the paths behind the edges; and on the inputs of the       *)
(* general family that declare both gateways, where gateway-to-gateway     *)
(* flows and so invisible tasks occur.                                     *)
(***************************************************************************)
InitWalks ==
    /\ pc = "edges_start"
    /\ IsGeneralInput(elements)
    /\ cypher = <<>>
    /\ all_flows = <<>>
    /\ real_nodes = {}
    /\ seen_edges = {}
    /\ calls = <<>>
    /\ args = NoArgs
    /\ data = EmptyDict
    /\ printed = {}
    /\ ret = Pending
    /\ semantics = Pending

SpecWalks == InitWalks /\ [][Next]_vars

IsTwoGatewayInput(els) ==
    \E gws \in {g \in GatewayLists : Len(g) = 2}, pairs \in GeneralPairLists :
        els = Elements(gws, FlowsOf(pairs))

InitSynthesis ==
    /\ pc = "edges_start"
    /\ IsTwoGatewayInput(elements)
    /\ cypher = <<>>
    /\ all_flows = <<>>
    /\ real_nodes = {}
    /\ seen_edges = {}
    /\ calls = <<>>
    /\ args = NoArgs
    /\ data = EmptyDict
    /\ printed = {}
    /\ ret = Pending
    /\ semantics = Pending

SpecSynthesis == InitSynthesis /\ [][Next]_vars

(***************************************************************************)
(* generate_edges on the scenario families alone: the XOR split (S2) and   *)
(* the gateway chain (S3), their flows in every order.                     *)
(***************************************************************************)
InitScenarios ==
    /\ pc = "edges_start"
    /\ \/ IsSplitInput(elements)
       \/ IsChainInput(elements)
    /\ cypher = <<>>
    /\ all_flows = <<>>
    /\ real_nodes = {}
    /\ seen_edges = {}
    /\ calls = <<>>
    /\ args = NoArgs
    /\ data = EmptyDict
    /\ printed = {}
    /\ ret = Pending
    /\ semantics = Pending

SpecScenarios == InitScenarios /\ [][Next]_vars

(***************************************************************************)
(* generate_edges on the diamond: t1 leads to the gateways g1 (XOR) and g2 *)
(* (AND), g1 leads to g2 and to t2, g2 leads to t2; the five flows in      *)
(* every order.                                                            *)
(***************************************************************************)
DiamondPairs ==
    <<<<"t1", "g1">>, <<"t1", "g2">>, <<"g1", "g2">>, <<"g2", "t2">>, <<"g1", "t2">>>>

IsDiamondInput(els) ==
    \E p \in Orders(5) :
        els = Elements(<<Gateway("g1", "exclusivegateway"),
                         Gateway("g2", "parallelgateway")>>,
                       Reorder(FlowsOf(DiamondPairs), p))

InitDiamond ==
    /\ pc = "edges_start"
    /\ IsDiamondInput(elements)
    /\ cypher = <<>>
    /\ all_flows = <<>>
    /\ real_nodes = {}
    /\ seen_edges = {}
    /\ calls = <<>>
    /\ args = NoArgs
    /\ data = EmptyDict
    /\ printed = {}
    /\ ret = Pending
    /\ semantics = Pending

SpecDiamond == InitDiamond /\ [][Next]_vars

(***************************************************************************)
(* generate_edges on the label family: at most MaxLabelFlows flows among   *)
(* t1 and the gateway g1, each a sequence flow or a message flow, without  *)
(* a source_name or with one that names a task or a gateway; g1 is         *)
(* exclusive, event-based or of a type the code does not know.             *)
(***************************************************************************)
LabelFlow(id, pair, flow_type, source_name) ==
    IF source_name = NoneVal
    THEN [id |-> id, flow_type |-> flow_type, source |-> pair[1], target |-> pair[2]]
    ELSE [id |-> id, flow_type |-> flow_type, source |-> pair[1], target |-> pair[2],
          source_name |-> source_name]

LabelFlowLists ==
    {[i \in DOMAIN fs |-> LabelFlow(FlowIdSeq[i], fs[i][1], fs[i][2], fs[i][3])] :
        fs \in UNION {[1..n -> ({"t1", "g1"} \X {"t1", "g1"})
                                 \X {"sequenceflow", "messageflow"}
                                 \X {NoneVal, "task", "Exclusive Gateway"}] :
                         n \in 0..MaxLabelFlows}}

InitLabels ==
    /\ pc = "edges_start"
    /\ \E flows \in LabelFlowLists :
       \E t \in {"exclusivegateway", "eventbasedgateway", "customgateway"} :
          elements = Elements(<<Gateway("g1", t)>>, flows)
    /\ cypher = <<>>
    /\ all_flows = <<>>
    /\ real_nodes = {}
    /\ seen_edges = {}
    /\ calls = <<>>
    /\ args = NoArgs
    /\ data = EmptyDict
    /\ printed = {}
    /\ ret = Pending
    /\ semantics = Pending

SpecLabels == InitLabels /\ [][Next]_vars

(***************************************************************************)
(* The documents of the pipeline.  A content is the four collections; a    *)
(* document holds a content in a result envelope, flat at the top level,   *)
(* or in an envelope that has the flow elements only; the empty document   *)
(* is a document too.  The id family is every list of at most MaxElements  *)
(* tasks whose id is missing, empty, X or X_1.  The flow family is the     *)
(* tasks t1 and t2 with at most MaxSeqFlows sequence flows among them,     *)
(* whose endpoints are explicit on the flow (source, target), or named by  *)
(* the outgoing and incoming lists of the tasks, or both.                  *)
(***************************************************************************)
IdTask(id) ==
    IF id = NoneVal THEN [type |-> "userTask"] ELSE [id |-> id, type |-> "userTask"]

IdContents ==
    {[i \in DOMAIN ids |-> IdTask(ids[i])] :
        ids \in UNION {[1..n -> {NoneVal, "", "X", "X_1"}] : n \in 0..MaxElements}}

\* The ids of the flows of `pairs` that leave (enter) the node.
FlowsLeaving(pairs, node) ==
    SelectSeq([i \in DOMAIN pairs |-> IF pairs[i][1] = node THEN FlowIdSeq[i] ELSE NoneVal],
              LAMBDA x : x # NoneVal)

FlowsEntering(pairs, node) ==
    SelectSeq([i \in DOMAIN pairs |-> IF pairs[i][2] = node THEN FlowIdSeq[i] ELSE NoneVal],
              LAMBDA x : x # NoneVal)

RawTask(id, type, pairs, wiring) ==
    IF wiring = "explicit" THEN [id |-> id, type |-> type]
    ELSE [id |-> id, type |-> type,
          outgoing |-> FlowsLeaving(pairs, id), incoming |-> FlowsEntering(pairs, id)]

RawFlow(id, pair, wiring) ==
    IF wiring = "lists" THEN [id |-> id, type |-> "sequenceFlow"]
    ELSE [id |-> id, type |-> "sequenceFlow", source |-> pair[1], target |-> pair[2]]

FlowContent(pairs, wiring) ==
    <<RawTask("t1", "userTask", pairs, wiring), RawTask("t2", "serviceTask", pairs, wiring)>>
    \o [i \in DOMAIN pairs |-> RawFlow(FlowIdSeq[i], pairs[i], wiring)]

FlowContents ==
    {FlowContent(pairs, wiring) :
        pairs \in UNION {[1..n -> {"t1", "t2"} \X {"t1", "t2"}] : n \in 0..MaxSeqFlows},
        wiring \in {"explicit", "lists", "both"}}

Content(flow_elements, with_pools) ==
    [flowElements |-> flow_elements,
     messageFlows |-> <<>>,
     pools |-> IF with_pools THEN <<[id |-> "p1", name |-> "Pool 1"]>> ELSE <<>>,
     lanes |-> IF with_pools
               THEN <<[id |-> "l1", name |-> "Lane 1", pool_id |-> "p1"]>> ELSE <<>>]

Contents ==
    {Content(els, with_pools) : els \in IdContents \cup FlowContents,
                                with_pools \in BOOLEAN}

Envelope(content) == [result |-> content]

Documents ==
    {Envelope(c) : c \in Contents}
    \cup Contents
    \cup {[result |-> [flowElements |-> c.flowElements]] : c \in Contents}
    \cup {EmptyDict}

\* A run starts at validate_schema(data, schema_path, auto_fix), or at
\* normalize_flow_elements(data) for a caller that validates nothing.
InitPipeline ==
    /\ \E doc \in Documents :
          /\ data = doc
          /\ \/ /\ pc = "schema_load"
                /\ \E schema_path \in {NoneVal, "bpmn_schema.json"}, auto_fix \in BOOLEAN :
                      args = [entry |-> "validate_schema", data |-> doc,
                              schema_path |-> schema_path, auto_fix |-> auto_fix]
             \/ /\ pc = "normalize"
                /\ args = [entry |-> "normalize_flow_elements", data |-> doc]
    /\ elements = EmptyDict
    /\ cypher = <<>>
    /\ all_flows = <<>>
    /\ real_nodes = {}
    /\ seen_edges = {}
    /\ calls = <<>>
    /\ printed = {}
    /\ ret = Pending
    /\ semantics = Pending

NextPipeline ==
    \/ LoadSchema
    \/ ShapeAndRepair
    \/ ValidateAgainstSchema
    \/ ValidateSemantics
    \/ NormalizeFlowElements
    \/ GeneratePoolsLanes
    \/ GenerateNodes
    \/ SynthesizeInvisibleTasks
    \/ EmitEdges

SpecPipeline == InitPipeline /\ [][NextPipeline]_vars

(***************************************************************************)
(* normalize_flow_elements called on a document and then on what it        *)
(* returned: the element set is a document in pre-structured form.         *)
(***************************************************************************)
InitNormalizer == InitPipeline /\ pc = "normalize"

NormalizeAgain ==
    /\ pc = "pools_lanes"
    /\ ret' = Returned(normalize_flow_elements(elements))
    /\ pc' = "normalized_again"
    /\ UNCHANGED <<elements, edges_vars, args, data, printed, semantics>>

NextNormalizer == NormalizeFlowElements \/ NormalizeAgain

SpecNormalizer == InitNormalizer /\ [][NextNormalizer]_vars

(***************************************************************************)
(* validate_semantics on the pool family: the tasks t1 and t2, each in no  *)
(* pool, or in p1 or p2 by its properties, or in p1 by its own pool_id; at *)
(* most one sequence flow between them; at most MaxMessageFlows message    *)
(* flows among t1, t2 and a node the document does not have, labeled or    *)
(* not.                                                                    *)
(***************************************************************************)
PoolTask(id, type, where, pool) ==
    IF where = "properties"
    THEN [id |-> id, type |-> type, properties |-> [pool_id |-> pool]]
    ELSE IF where = "node" THEN [id |-> id, type |-> type, pool_id |-> pool]
    ELSE [id |-> id, type |-> type]

PoolChoices ==
    {<<"none", NoneVal>>, <<"properties", "p1">>, <<"properties", "p2">>, <<"node", "p1">>}

PoolSequenceFlows ==
    {<<>>} \cup {<<[id |-> "f1", type |-> "sequenceFlow",
                    source |-> pair[1], target |-> pair[2]]>> :
                    pair \in {<<"t1", "t2">>, <<"t2", "t1">>}}

MessageIdSeq == <<"m1", "m2", "m3">>

PoolMessageFlows ==
    {[i \in DOMAIN ms |-> [id |-> MessageIdSeq[i], source |-> ms[i][1],
                           target |-> ms[i][2], name |-> ms[i][3]]] :
        ms \in UNION {[1..n -> {"t1", "t2", "ghost"} \X {"t1", "t2", "ghost"}
                                 \X {"", "order"}] : n \in 0..MaxMessageFlows}}

PoolDocuments ==
    {Envelope([flowElements |-> <<PoolTask("t1", "userTask", c1[1], c1[2]),
                                  PoolTask("t2", "serviceTask", c2[1], c2[2])>> \o fs,
               messageFlows |-> ms,
               pools |-> <<[id |-> "p1", name |-> "Pool 1"], [id |-> "p2", name |-> "Pool 2"]>>,
               lanes |-> <<>>]) :
        c1 \in PoolChoices, c2 \in PoolChoices, fs \in PoolSequenceFlows,
        ms \in PoolMessageFlows}

InitPools ==
    /\ pc = "semantics"
    /\ \E doc \in PoolDocuments :
          /\ data = doc
          /\ args = [entry |-> "validate_semantics", data |-> doc]
    /\ elements = EmptyDict
    /\ cypher = <<>>
    /\ all_flows = <<>>
    /\ real_nodes = {}
    /\ seen_edges = {}
    /\ calls = <<>>
    /\ printed = {}
    /\ ret = Pending
    /\ semantics = Pending

SpecPools == InitPools /\ [][ValidateSemantics]_vars

(***************************************************************************)
(* GraphTransformer: transform() and batch_output(batch_size).  The class  *)
(* is imported by graph_converter.py and is not among the sources; it is   *)
(* modelled on its description: transform() normalizes the document and    *)
(* emits the pool and lane statements, the node statements and the edge    *)
(* statements; batch_output(batch_size) gives the statement sequence in    *)
(* consecutive slices of batch_size statements, the last one shorter when  *)
(* the sequence does not divide evenly.                                    *)
(***************************************************************************)
batch_output_full_slices_only(statements, batch_size) ==
    [i \in 1..(Len(statements) \div batch_size) |->
        SubSeq(statements, (i - 1) * batch_size + 1, i * batch_size)]

batch_output(statements, batch_size) ==
    [i \in 1..((Len(statements) + batch_size - 1) \div batch_size) |->
        SubSeq(statements, (i - 1) * batch_size + 1,
               IF i * batch_size < Len(statements) THEN i * batch_size
                                                   ELSE Len(statements))]

BatchOutput ==
    /\ pc = "done"
    /\ \E batch_size \in 1..MaxBatch :
          ret' = Returned([batch_size |-> batch_size,
                           batches |-> batch_output(cypher, batch_size)])
    /\ pc' = "batched"
    /\ UNCHANGED <<elements, edges_vars, args, data, printed, semantics>>

InitTransform == InitPipeline /\ pc = "normalize"

NextTransform ==
    \/ NormalizeFlowElements
    \/ GeneratePoolsLanes
    \/ GenerateNodes
    \/ SynthesizeInvisibleTasks
    \/ EmitEdges
    \/ BatchOutput

SpecTransform == InitTransform /\ [][NextTransform]_vars

(***************************************************************************)
(* A generator called alone on a decoded element set, as the tests call    *)
(* them: at most MaxDecoded activities, each with or without its id and    *)
(* its type, at most one event, the gateways g1 and g2, at most one flow   *)
(* with or without its id, at most one pool and one lane.                  *)
(***************************************************************************)
Without(d, k) == [x \in (DOMAIN d) \ {k} |-> d[x]]

DecodedShapes(d) == {d, Without(d, "id"), Without(d, "type")}

DecodedActivities ==
    UNION {[1..n -> {"full", "no_id", "no_type"}] : n \in 0..MaxDecoded}

DecodedActivity(i, shape) ==
    LET ids == <<"t1", "t2", "t3", "t4">>
        act == [id |-> ids[i], name |-> "Task", type |-> "usertask"]
    IN  IF shape = "no_id" THEN Without(act, "id")
        ELSE IF shape = "no_type" THEN Without(act, "type")
        ELSE act

DecodedFlows ==
    {<<>>,
     <<Flow("f1", "g1", "g2")>>,
     <<Without(Flow("f1", "g1", "g2"), "id")>>,
     <<Without(Flow("f1", "t1", "g1"), "id")>>}

DecodedElementSets ==
    {[activities |-> [i \in DOMAIN shapes |-> DecodedActivity(i, shapes[i])],
      events |-> events, gateways |-> gateways, flows |-> flows,
      pools |-> pools, lanes |-> lanes] :
        shapes \in DecodedActivities,
        events \in {<<>>} \cup {<<e>> : e \in DecodedShapes(Node("start", "startevent"))},
        gateways \in {<<>>,
                      <<[id |-> "g1", name |-> "Decision", type |-> "exclusive"]>>,
                      <<Gateway("g1", "exclusivegateway"),
                        Gateway("g2", "parallelgateway")>>},
        flows \in DecodedFlows,
        pools \in {<<>>, <<[id |-> "p1", name |-> "Pool 1"]>>, <<[name |-> "Pool 1"]>>},
        lanes \in {<<>>, <<[id |-> "l1", name |-> "Lane 1", pool_id |-> "p1"]>>,
                   <<[id |-> "l1", name |-> "Lane 1"]>>, <<[name |-> "Lane 1"]>>}}

InitDecoded ==
    /\ pc = "decoded"
    /\ elements \in DecodedElementSets
    /\ \E entry \in {"generate_nodes", "generate_pools_lanes", "generate_edges"} :
          args = [entry |-> entry, decoded |-> TRUE]
    /\ cypher = <<>>
    /\ all_flows = <<>>
    /\ real_nodes = {}
    /\ seen_edges = {}
    /\ calls = <<>>
    /\ data = EmptyDict
    /\ printed = {}
    /\ ret = Pending
    /\ semantics = Pending

CallGenerateNodes ==
    /\ pc = "decoded"
    /\ args.entry = "generate_nodes"
    /\ IF generate_nodes_raises(elements)
       THEN ret' = Raised("KeyError") /\ pc' = "raised" /\ cypher' = cypher
       ELSE /\ ret' = Returned(generate_nodes(elements))
            /\ cypher' = generate_nodes(elements)
            /\ pc' = "returned"
    /\ UNCHANGED <<elements, all_flows, real_nodes, seen_edges, calls,
                   args, data, printed, semantics>>

CallGeneratePoolsLanes ==
    /\ pc = "decoded"
    /\ args.entry = "generate_pools_lanes"
    /\ IF generate_pools_lanes_raises(elements)
       THEN ret' = Raised("KeyError") /\ pc' = "raised" /\ cypher' = cypher
       ELSE /\ ret' = Returned(generate_pools_lanes(elements))
            /\ cypher' = generate_pools_lanes(elements)
            /\ pc' = "returned"
    /\ UNCHANGED <<elements, all_flows, real_nodes, seen_edges, calls,
                   args, data, printed, semantics>>

\* generate_edges: the loop of lines 88-118 raises, or the two steps of the
\* function follow.
CallGenerateEdges ==
    /\ pc = "decoded"
    /\ args.entry = "generate_edges"
    /\ IF generate_edges_raises(elements)
       THEN ret' = Raised("KeyError") /\ pc' = "raised"
       ELSE ret' = ret /\ pc' = "edges_start"
    /\ UNCHANGED <<elements, edges_vars, args, data, printed, semantics>>

NextDecoded ==
    \/ CallGenerateNodes
    \/ CallGeneratePoolsLanes
    \/ CallGenerateEdges
    \/ SynthesizeInvisibleTasks
    \/ EmitEdges

SpecDecoded == InitDecoded /\ [][NextDecoded]_vars

(***************************************************************************)
(* detect_cycle called alone, as the tests call it: on a list of at most   *)
(* MaxCycleFlows sequence flows over the nodes A, B, C, each flow with or  *)
(* without its source and its target.                                      *)
(***************************************************************************)
CycleFlow(id, src, tgt) ==
    LET f == [id |-> id, type |-> "sequenceFlow"]
        g == IF src = NoneVal THEN f ELSE Put(f, "source", src)
    IN  IF tgt = NoneVal THEN g ELSE Put(g, "target", tgt)

CycleFlowLists ==
    {[i \in DOMAIN ends |-> CycleFlow(FlowIdSeq[i], ends[i][1], ends[i][2])] :
        ends \in UNION {[1..n -> {NoneVal, "A", "B", "C"} \X {NoneVal, "A", "B", "C"}] :
                           n \in 0..MaxCycleFlows}}

InitCycle ==
    /\ pc = "cycle_start"
    /\ \E flows \in CycleFlowLists :
          /\ args = [entry |-> "detect_cycle", flows |-> flows]
          /\ data = Envelope([flowElements |-> flows])
    /\ elements = EmptyDict
    /\ cypher = <<>>
    /\ all_flows = <<>>
    /\ real_nodes = {}
    /\ seen_edges = {}
    /\ calls = <<>>
    /\ printed = {}
    /\ ret = Pending
    /\ semantics = Pending

DetectCycle ==
    /\ pc = "cycle_start"
    /\ ret' = Returned(detect_cycle(CycleEdges(args.flows)))
    /\ pc' = "returned"
    /\ UNCHANGED <<elements, edges_vars, args, data, printed, semantics>>

SpecCycle == InitCycle /\ [][DetectCycle]_vars

(***************************************************************************)
(* fix_duplicate_ids called alone on a document whose flow elements are at *)
(* most MaxRepeats tasks, each without an id or with the id X or X_1.      *)
(***************************************************************************)
RepeatLists ==
    {[i \in DOMAIN ids |-> IdTask(ids[i])] :
        ids \in UNION {[1..n -> {NoneVal, "X", "X_1"}] : n \in 0..MaxRepeats}}

InitRepair ==
    /\ pc = "repair_start"
    /\ \E els \in RepeatLists :
          /\ args = [entry |-> "fix_duplicate_ids",
                     data |-> Envelope([flowElements |-> els])]
          /\ data = Envelope([flowElements |-> els])
    /\ elements = EmptyDict
    /\ cypher = <<>>
    /\ all_flows = <<>>
    /\ real_nodes = {}
    /\ seen_edges = {}
    /\ calls = <<>>
    /\ printed = {}
    /\ ret = Pending
    /\ semantics = Pending

FixDuplicateIds ==
    /\ pc = "repair_start"
    /\ data' = WithFlowElements(data,
                   fix_duplicate_ids(FlowElementsOf(data), EmptyDict, <<>>))
    /\ ret' = Returned(NoneVal)
    /\ pc' = "repaired"
    /\ UNCHANGED <<elements, edges_vars, args, printed, semantics>>

SpecRepair == InitRepair /\ [][FixDuplicateIds]_vars

(***************************************************************************)
(* What the claims read off a state of generate_edges.                     *)
(***************************************************************************)
EdgeIndexes == {i \in DOMAIN cypher : cypher[i].kind = "Edge"}

EmittedPairs == {<<cypher[i].a, cypher[i].b>> : i \in EdgeIndexes}

InvisibleTaskIds ==
    {cypher[i].id : i \in {j \in DOMAIN cypher : cypher[j].type = "InvisibleTask"}}

GatewayIds == DOMAIN build_gateway_map(elements)

(***************************************************************************)
(* C1.  Every emitted edge statement (a, b) has both a and b in the set of *)
(* real nodes (activities, events, invisible tasks), whatever branch of    *)
(* the edge pass emitted it.  The code breaks this in the event-based      *)
(* gateway branch, which emits the flow's own source: a flow that leaves   *)
(* an event-based gateway yields an edge whose source is the gateway.      *)
(***************************************************************************)
C1_EdgeEndpointsReal ==
    pc = "done" =>
        \A i \in EdgeIndexes :
            cypher[i].a \in real_nodes /\ cypher[i].b \in real_nodes

(***************************************************************************)
(* C2.  No ordered pair (source, target) is emitted twice in one run,      *)
(* however many calls of add_edge (from direct, bypassed or rewritten      *)
(* flows) name the pair: the pair of every call is emitted exactly once,   *)
(* and the statement kept is the one of the first call, with the id of the *)
(* flow that made it.                                                      *)
(***************************************************************************)
C2_NoDuplicatePairs ==
    pc = "done" =>
        /\ \A i, j \in EdgeIndexes :
              (cypher[i].a = cypher[j].a /\ cypher[i].b = cypher[j].b) => i = j
        /\ \A c \in DOMAIN calls :
              \E i \in EdgeIndexes :
                  /\ cypher[i].a = calls[c][1]
                  /\ cypher[i].b = calls[c][2]
                  /\ \E d \in 1..c :
                        /\ calls[d][1] = calls[c][1]
                        /\ calls[d][2] = calls[c][2]
                        /\ cypher[i].id = calls[d][3]
                        /\ \A e \in 1..(d - 1) :
                              calls[e][1] # calls[c][1] \/ calls[e][2] # calls[c][2]
        /\ \A i \in EdgeIndexes :
              \E c \in DOMAIN calls :
                  calls[c][1] = cypher[i].a /\ calls[c][2] = cypher[i].b
        /\ seen_edges = EmittedPairs

\* Two different flows called add_edge for one pair.
C2_Witness ==
    /\ pc = "done"
    /\ \E c, d \in DOMAIN calls :
          /\ c < d
          /\ calls[c][1] = calls[d][1]
          /\ calls[c][2] = calls[d][2]
          /\ calls[c][3] # calls[d][3]

(***************************************************************************)
(* C3.  The rewriting of gateway-to-gateway flows.  As amended: every FLOW *)
(* of the input that links a gateway g1 to a gateway g2 gets one invisible *)
(* task I of its own: the flow is replaced, at its place in the list, by   *)
(* exactly the two flows g1 -> I with id <orig>_inv_in and I -> g2 with id *)
(* <orig>_inv_out, I has no other flow, every other flow is kept as it is, *)
(* no rewritten flow has a gateway at both ends, and no emitted edge       *)
(* connects g1 to g2.                                                      *)
(***************************************************************************)
GatewayFlowIndexes ==
    {i \in DOMAIN original_flows(elements) :
        /\ Src(original_flows(elements)[i]) \in GatewayIds
        /\ Tgt(original_flows(elements)[i]) \in GatewayIds}

\* orig: the original flows; gws: the gateway ids; gfi: the indexes of the
\* gateway-to-gateway flows; invs: the invisible tasks; place[i]: where the
\* i-th original flow starts in the rewritten list.
InvisibleTaskPerGatewayFlow(orig, gws, gfi, invs, place) ==
    /\ Cardinality(invs) = Cardinality(gfi)
    /\ Len(all_flows) = Len(orig) + Cardinality(gfi)
    /\ invs \subseteq real_nodes
    /\ invs \cap gws = {}
    /\ \A i \in DOMAIN orig :
          IF i \in gfi
          THEN \E inv \in invs :
                  /\ all_flows[place[i]] =
                        [orig[i] EXCEPT !.id = InvInId(orig[i].id), !.target = inv]
                  /\ all_flows[place[i] + 1] =
                        [orig[i] EXCEPT !.id = InvOutId(orig[i].id), !.source = inv]
                  /\ \A k \in DOMAIN all_flows :
                        (Src(all_flows[k]) = inv \/ Tgt(all_flows[k]) = inv)
                            => k \in {place[i], place[i] + 1}
          ELSE all_flows[place[i]] = orig[i]
    /\ \A k \in DOMAIN all_flows :
          ~(Src(all_flows[k]) \in gws /\ Tgt(all_flows[k]) \in gws)
    /\ \A i \in gfi : <<Src(orig[i]), Tgt(orig[i])>> \notin EmittedPairs

C3_InvisibleTaskPerGatewayFlow ==
    pc \in {"edges_pass", "done"} =>
        \A orig \in {original_flows(elements)}, gws \in {GatewayIds},
           gfi \in {GatewayFlowIndexes}, invs \in {InvisibleTaskIds} :
            \A place \in {[i \in DOMAIN orig |->
                              i + Cardinality({j \in gfi : j < i})]} :
                InvisibleTaskPerGatewayFlow(orig, gws, gfi, invs, place)

\* C3 as stated: every PAIR of gateways (g1, g2) that a flow of the input
\* links has exactly one invisible task between g1 and g2.  The loop makes an
\* invisible task for each flow, so a pair that two flows link has two.
C3_OneInvisibleTaskPerGatewayPair ==
    pc \in {"edges_pass", "done"} =>
        \A i \in GatewayFlowIndexes :
            Cardinality({inv \in InvisibleTaskIds :
                /\ \E k \in DOMAIN all_flows :
                      /\ Src(all_flows[k]) = Src(original_flows(elements)[i])
                      /\ Tgt(all_flows[k]) = inv
                /\ \E k \in DOMAIN all_flows :
                      /\ Src(all_flows[k]) = inv
                      /\ Tgt(all_flows[k]) = Tgt(original_flows(elements)[i])}) = 1

\* Two flows link the same two gateways, each got its invisible task, and
\* the edge pass emitted an edge at an invisible task.
C3_Witness ==
    /\ pc = "done"
    /\ \E i, j \in GatewayFlowIndexes :
          /\ i # j
          /\ Src(original_flows(elements)[i]) = Src(original_flows(elements)[j])
          /\ Tgt(original_flows(elements)[i]) = Tgt(original_flows(elements)[j])
          /\ Src(original_flows(elements)[i]) # Tgt(original_flows(elements)[i])
    /\ Cardinality(InvisibleTaskIds) = 2
    /\ \E p \in EmittedPairs : p[1] \in InvisibleTaskIds \/ p[2] \in InvisibleTaskIds

(***************************************************************************)
(* C8.  Scenario S3, the chain start -> XOR -> AND -> task -> end, with    *)
(* its flows in any order: generate_edges makes exactly one invisible task *)
(* I, between XOR and AND, and emits exactly the edges start -> I,         *)
(* I -> task and task -> end; no edge has a gateway as an endpoint.        *)
(***************************************************************************)
IsChainScenario ==
    /\ Len(elements.flows) = 4
    /\ {<<Src(elements.flows[i]), Tgt(elements.flows[i])>> :
            i \in DOMAIN elements.flows} = Range(ChainPairs)
    /\ build_gateway_map(elements) =
          [g \in {"g1", "g2"} |->
              IF g = "g1" THEN "exclusivegateway" ELSE "parallelgateway"]

C8_GatewayChainScenario ==
    (pc = "done" /\ IsChainScenario) =>
        /\ Cardinality(InvisibleTaskIds) = 1
        /\ Len(SelectSeq(cypher, LAMBDA st : st.type = "InvisibleTask")) = 1
        /\ \E inv \in InvisibleTaskIds :
              /\ \E k \in DOMAIN all_flows :
                    /\ Src(all_flows[k]) = "g1" /\ Tgt(all_flows[k]) = inv
                    /\ Src(all_flows[k + 1]) = inv /\ Tgt(all_flows[k + 1]) = "g2"
              /\ EmittedPairs = {<<"start", inv>>, <<inv, "t1">>, <<"t1", "end">>}
        /\ Cardinality(EdgeIndexes) = 3
        /\ \A p \in EmittedPairs : p[1] \notin {"g1", "g2"} /\ p[2] \notin {"g1", "g2"}

\* The chain with the flow task -> end first in the list.
C8_Witness ==
    /\ pc = "done"
    /\ IsChainScenario
    /\ elements.flows[1].source = "t1"
    /\ Cardinality(EdgeIndexes) = 3

(***************************************************************************)
(* C9.  Scenario S2: the flows are those from one real node s into an      *)
(* exclusive gateway g and two or more flows from g to real nodes (g is    *)
(* linked to no other gateway).  The emitted edges are exactly (s, t) for  *)
(* the targets t of g, and each carries the label XOR_SPLIT.               *)
(***************************************************************************)
IsSplitScenario(s, g) ==
    /\ g \in GatewayIds
    /\ build_gateway_map(elements)[g] = "exclusivegateway"
    /\ s \in DeclaredRealNodes(elements)
    /\ \A i \in DOMAIN elements.flows :
          \/ Src(elements.flows[i]) = s /\ Tgt(elements.flows[i]) = g
          \/ /\ Src(elements.flows[i]) = g
             /\ Tgt(elements.flows[i]) \in DeclaredRealNodes(elements)
    /\ \E i \in DOMAIN elements.flows : Src(elements.flows[i]) = s
                                         /\ Tgt(elements.flows[i]) = g
    /\ Cardinality({i \in DOMAIN elements.flows : Src(elements.flows[i]) = g}) >= 2

C9_XorSplitScenario ==
    pc = "done" =>
        \A s \in DeclaredRealNodes(elements), g \in GatewayIds :
            IsSplitScenario(s, g) =>
                /\ EmittedPairs =
                      {<<s, Tgt(elements.flows[i])>> :
                          i \in {j \in DOMAIN elements.flows :
                                    Src(elements.flows[j]) = g}}
                /\ \A i \in EdgeIndexes : cypher[i].type = "XOR_SPLIT"
                /\ Cardinality(EdgeIndexes) = Cardinality(EmittedPairs)

\* The split with three different targets, the flow into the gateway last.
C9_Witness ==
    /\ pc = "done"
    /\ IsSplitScenario("start", "g1")
    /\ Len(elements.flows) = 4
    /\ Src(elements.flows[4]) = "start"
    /\ Cardinality(EmittedPairs) = 3

(***************************************************************************)
(* C4.  After the repair steps of validate_schema with auto_fix (the ids   *)
(* that are missing or empty are assigned, then the repeated ids are       *)
(* renamed), every element of result.flowElements has a non-empty id and   *)
(* no two elements have the same id.  The code breaks this when a renamed  *)
(* id meets an id of the input: of the ids X, X, X_1 the second becomes    *)
(* X_1, which the third already is.                                        *)
(***************************************************************************)
C4_IdsUniqueAfterRepair ==
    (pc = "schema_check" /\ args.auto_fix) =>
        \A i, j \in DOMAIN FlowElementsOf(data) :
            /\ "id" \in DOMAIN FlowElementsOf(data)[i]
            /\ ~Falsy(FlowElementsOf(data)[i]["id"])
            /\ (i # j => FlowElementsOf(data)[i]["id"] # IdOf(FlowElementsOf(data)[j]))

\* What validate_schema returns for a document, when the descriptor can be
\* read and schema_path is given.
validate_schema(doc, auto_fix, required) ==
    LET d == RepairIds(ShapeResult(doc), auto_fix)
    IN  IF Conforms(d, required) \/ ~auto_fix THEN d ELSE auto_fix_schema(d, required)

(***************************************************************************)
(* C5.  A flat document (the four collections at the top level, no result  *)
(* envelope) that goes through validate_schema and then through            *)
(* normalize_flow_elements yields the same element set as the same content *)
(* in a result envelope.  The code breaks this: validate_schema gives the  *)
(* flat document an empty result with four empty collections, and          *)
(* normalize_json_structure then copies the empty collections over the     *)
(* ones at the top level, so every element of the flat document is lost.   *)
(***************************************************************************)
C5_FlatShapeLosesNothing ==
    (/\ pc = "nodes"
     /\ args.entry = "validate_schema"
     /\ "result" \notin DOMAIN args.data
     /\ "flowElements" \in DOMAIN args.data) =>
        \E required \in Schemas :
            elements = normalize_flow_elements(
                           validate_schema(Envelope(args.data), args.auto_fix, required))

(***************************************************************************)
(* C6.  validate_schema called without a schema_path fails only when the   *)
(* packaged schema descriptor cannot be read: no defect of the document    *)
(* makes the call raise.  The code breaks this: after the repairs, line 54 *)
(* opens schema_path itself, and open(None) raises TypeError for every     *)
(* document, also when the packaged descriptor was read.                   *)
(***************************************************************************)
C6_FailsOnlyOnUnreadableSchema ==
    (/\ args.entry = "validate_schema"
     /\ args.schema_path = NoneVal
     /\ ret.kind = "raise") => ret.value = "OSError"

(***************************************************************************)
(* C7.  Scenario S1: the tasks t1 and t2 and the sequence flow f1 with the *)
(* explicit source t1 and target t2 (no incoming or outgoing lists):       *)
(* normalization, node generation and edge generation give exactly two     *)
(* Activity statements and exactly one edge, t1 -> t2, labelled            *)
(* SEQUENCE_FLOW.  The code breaks this: the normalizer takes the          *)
(* endpoints of a flow from the flow map only, which is built from the     *)
(* incoming and outgoing lists, so f1 gets source None and target None and *)
(* no edge is emitted.                                                     *)
(***************************************************************************)
IsTwoTasksLinked(doc) ==
    \E c \in {doc, Get(doc, "result", EmptyDict)} :
        Get(c, "flowElements", <<>>) = FlowContent(<<<<"t1", "t2">>>>, "explicit")

C7_TwoTasksLinked ==
    (pc = "done" /\ args.entry # "generate_edges" /\ IsTwoTasksLinked(data)) =>
        /\ Len(SelectSeq(cypher, LAMBDA st : st.kind = "Activity")) = 2
        /\ Len(SelectSeq(cypher, LAMBDA st : st.kind = "Edge")) = 1
        /\ \E i \in DOMAIN cypher :
              /\ cypher[i].kind = "Edge"
              /\ cypher[i].a = "t1" /\ cypher[i].b = "t2"
              /\ cypher[i].type = "SEQUENCE_FLOW"

(***************************************************************************)
(* C10.  validate_semantics in non-strict mode returns to its caller the   *)
(* pair (errors, warnings) of the diagnostics it collected.  The code      *)
(* breaks this: the function has no return statement, so the caller gets   *)
(* None and the diagnostics are printed only.                              *)
(***************************************************************************)
C10_SemanticsReturnsDiagnostics ==
    semantics.kind = "return" =>
        /\ semantics.value \notin STRING
        /\ semantics.value = <<semantics.errors, semantics.warnings>>

(***************************************************************************)
(* C11.  validate_semantics in non-strict mode always returns without      *)
(* raising; in strict mode it raises one aggregate error exactly when a    *)
(* hard rule (a rule with a BPMN code) was violated, and diagnostics of    *)
(* Style rules alone do not make strict mode fail.  The code breaks this:  *)
(* the Style diagnostics of validate_events, validate_activities and       *)
(* validate_orphan_nodes are appended to the errors, so two unnamed tasks  *)
(* on a loop (Style 0103 only) make strict mode raise.  The formula is     *)
(* stated for the documents whose flow elements all have an id; for the    *)
(* others line 231 raises KeyError in either mode.                         *)
(***************************************************************************)
IsHardRule(diag) == diag.code \notin {"Style", "Style 0103", "Style 0104", "Style 01106",
                                      "Style 0304", "Style 01105", "Style 0129",
                                      "Style 0135", "Style 0136"}

HardRuleViolated(outcome) ==
    \E diag \in Range(outcome.errors) \cup Range(outcome.warnings) : IsHardRule(diag)

C11_StrictFailsOnHardRulesOnly ==
    (/\ semantics.kind # "pending"
     /\ \A i \in DOMAIN FlowElementsOf(data) : "id" \in DOMAIN FlowElementsOf(data)[i]) =>
        /\ ~semantics.strict => semantics.kind = "return"
        /\ semantics.strict =>
              /\ semantics.kind = "raise" <=> HardRuleViolated(semantics)
              /\ semantics.kind = "raise" => semantics.value = "ValueError"

(***************************************************************************)
(* C12.  Scenario S6: for a node that has neither an incoming nor an       *)
(* outgoing flow, validate_semantics puts the orphan diagnostic among the  *)
(* warnings and not among the errors, and generate_nodes still emits the   *)
(* statement of the node.  The code breaks the first part: line 76 adds    *)
(* what validate_orphan_nodes returns to the errors.                       *)
(***************************************************************************)
OrphanDiagnostics(d) ==
    LET els == FlowElementsOf(d)
    IN  Range(validate_orphan_nodes(OfType(els, "task") \o OfType(els, "event")
                                        \o OfType(els, "gateway"),
                                    OfType(els, "flow")))

C12_OrphanIsWarning ==
    /\ (pc = "normalize" /\ args.entry = "validate_schema") =>
            \A diag \in OrphanDiagnostics(data) :
                /\ diag \in Range(semantics.warnings)
                /\ diag \notin Range(semantics.errors)
    /\ (pc = "edges_start" /\ args.entry = "validate_schema") =>
            \A diag \in OrphanDiagnostics(data) :
                \E i \in DOMAIN cypher : cypher[i].id = diag.about

(***************************************************************************)
(* C13.  detect_cycle(flows) returns true exactly when the directed graph  *)
(* of the flows that have both endpoints (source to target, self-loops and *)
(* parallel flows included) has a directed cycle; a flow that lacks an     *)
(* endpoint is ignored.                                                    *)
(***************************************************************************)
\* The (source, target) pairs of the flows that have both.
CompleteFlows(flows) ==
    {<<flows[i]["source"], flows[i]["target"]>> :
        i \in {j \in DOMAIN flows : {"source", "target"} \subseteq DOMAIN flows[j]}}

\* n can be reached from m by a path of at least one and at most k flows.
RECURSIVE ReachesIn(_, _, _, _)
ReachesIn(E, m, n, k) ==
    /\ k > 0
    /\ \/ <<m, n>> \in E
       \/ \E e \in E : e[1] = m /\ ReachesIn(E, e[2], n, k - 1)

HasDirectedCycle(E) == \E e \in E : ReachesIn(E, e[1], e[1], Cardinality(E))

FlowNodes(flows) == {Src(flows[i]) : i \in DOMAIN flows} \cup {Tgt(flows[i]) : i \in DOMAIN flows}

NoRevisit(trace, flows) ==
    /\ \A i, j \in DOMAIN trace : trace[i] = trace[j] => i = j
    /\ Len(trace) <= Cardinality(FlowNodes(flows))

\* The flows have a cycle made of non-real nodes only.
RECURSIVE ReachesOutside(_, _, _, _, _)
ReachesOutside(flows, real, m, n, k) ==
    /\ k > 0
    /\ \E i \in DOMAIN flows :
          /\ Src(flows[i]) = m
          /\ Tgt(flows[i]) \notin real
          /\ \/ Tgt(flows[i]) = n
             \/ ReachesOutside(flows, real, Tgt(flows[i]), n, k - 1)

C14_WalksNeverRevisit ==
    pc \in {"edges_pass", "done"} =>
        \A n \in FlowNodes(all_flows) :
            /\ NoRevisit(find_real_targets(all_flows, real_nodes, n, NewWalk).trace, all_flows)
            /\ NoRevisit(find_real_sources(all_flows, real_nodes, n, NewWalk).trace, all_flows)

C14_Witness ==
    /\ pc = "done"
    /\ \E n \in FlowNodes(all_flows) \ real_nodes :
          /\ ReachesOutside(all_flows, real_nodes, n, n, Len(all_flows))
          /\ Len(find_real_targets(all_flows, real_nodes, n, NewWalk).trace) > 1
    /\ \E i \in DOMAIN cypher : cypher[i].kind = "Edge"

(***************************************************************************)
(* C17.  For every lane of the input document that names its pool          *)
(* (pool_id), the statements of normalization followed by                  *)
(* generate_pools_lanes have the Lane statement of the lane with the       *)
(* BELONGS_TO relation of the lane to that pool right after it, and every  *)
(* Pool statement comes before every Lane statement.  The code breaks the  *)
(* first part: the normalizer reduces a lane to id, name and type (lines   *)
(* 277-284), so generate_pools_lanes finds no pool_id and emits no         *)
(* relation.                                                               *)
(***************************************************************************)
C17_LaneBelongsToPool ==
    (pc = "nodes" /\ args.entry # "generate_edges") =>
        /\ \A k \in DOMAIN ListAt(data, "lanes") :
              ~Falsy(Get(ListAt(data, "lanes")[k], "pool_id", "")) =>
                  \E i \in DOMAIN cypher :
                      /\ cypher[i].kind = "Lane"
                      /\ cypher[i].id = IdOf(ListAt(data, "lanes")[k])
                      /\ i + 1 \in DOMAIN cypher
                      /\ cypher[i + 1] = BelongsToStmt(IdOf(ListAt(data, "lanes")[k]),
                                                       ListAt(data, "lanes")[k]["pool_id"])
        /\ \A i, j \in DOMAIN cypher :
              (cypher[i].kind = "Pool" /\ cypher[j].kind \in {"Lane", "BelongsTo"}) => i < j

(***************************************************************************)
(* C16.  For an input already in pre-structured form (activities, events,  *)
(* gateways, flows, pools and lanes at the top level)                      *)
(* normalize_flow_elements is a no-op, so normalizing what normalization   *)
(* returned gives it back: normalize(normalize(d)) = normalize(d).  The    *)
(* code breaks this: the function reads flowElements and messageFlows      *)
(* only, which a pre-structured document does not have, and returns empty  *)
(* activities, events, gateways and flows.                                 *)
(***************************************************************************)
C16_NormalizeIdempotent ==
    pc = "normalized_again" => ret.value = elements

(***************************************************************************)
(* C18.  The transformation functions never raise on malformed but         *)
(* parseable input: generate_nodes, generate_pools_lanes and               *)
(* generate_edges return a statement list for every decoded element set,   *)
(* also when an activity or event lacks its type or id and when a          *)
(* gateway-to-gateway flow lacks its id.  The code breaks this: act['id'], *)
(* act['type'], evt['id'], evt['type'], pool['id'], lane['id'] and f['id'] *)
(* are subscripts, and each raises KeyError when the key is missing.       *)
(***************************************************************************)
C18_GeneratorsNeverRaise ==
    "decoded" \in DOMAIN args => pc # "raised"

(***************************************************************************)
(* C20.  generate_nodes emits a node statement for every gateway of its    *)
(* input, one that refers to the gateway by its id.  The code breaks this: *)
(* generate_nodes has a loop for the activities and a loop for the events  *)
(* and none for the gateways.  (No statement carries a gateway's name      *)
(* either: the activities are named Task, the gateways Decision or not at  *)
(* all.)                                                                   *)
(***************************************************************************)
C20_GatewayNodes ==
    (pc = "returned" /\ args.entry = "generate_nodes") =>
        \A g \in DOMAIN elements["gateways"] :
            \E i \in DOMAIN ret.value : ret.value[i].id = IdOf(elements["gateways"][g])

(***************************************************************************)
(* C19.  batch_output(k), k >= 1, gives consecutive slices of the          *)
(* statement sequence of transform(): no slice is longer than k, and the   *)
(* slices put end to end are the sequence, every statement once and in its *)
(* place.                                                                  *)
(***************************************************************************)
C19_BatchesConcatenate ==
    pc = "batched" =>
        /\ \A i \in DOMAIN ret.value.batches :
              Len(ret.value.batches[i]) <= ret.value.batch_size
        /\ Flatten(ret.value.batches) = cypher

\* A sequence that does not divide evenly: several slices, the last shorter.
C19_Witness ==
    /\ pc = "batched"
    /\ ret.value.batch_size >= 2
    /\ Len(cypher) > ret.value.batch_size
    /\ Len(cypher) % ret.value.batch_size # 0

(***************************************************************************)
(* C21.  The transformation core is pure with respect to its input:        *)
(* normalize_flow_elements leaves the document it is given as it was, no   *)
(* key added, overwritten or removed, also when the document has a result  *)
(* envelope.  The code breaks this: normalize_json_structure assigns       *)
(* data[key] = data["result"][key] on the caller's dictionary, so a        *)
(* document with an envelope comes back with top-level copies of the       *)
(* collections of its result.  (generate_edges does leave its element set  *)
(* alone: it rewrites copies, f1 = dict(f) and f2 = dict(f).)              *)
(***************************************************************************)
C21_NormalizeLeavesDocument ==
    (args.entry = "normalize_flow_elements" /\ pc # "normalize") => data = args.data

(***************************************************************************)
(* C22.  When several flow elements share an id X, fix_duplicate_ids keeps *)
(* X on the first of them and renames the k-th (k >= 2) to X_(k-1), and a  *)
(* reference to X still finds the first of them and no other element.      *)
(* The renaming is as stated; the code breaks the last part when a renamed *)
(* id meets an id of the input (C4): of the ids X, X_1, X_1, X the last    *)
(* becomes X_1, so X_1 names the second element and the fourth.            *)
(***************************************************************************)
\* The elements before and after the repair.
RepairInput == FlowElementsOf(args.data)
RepairOutput == FlowElementsOf(data)

\* Which occurrence of its id the i-th element of the input is.
OccurrenceNo(i) ==
    Cardinality({j \in 1..i : IdOf(RepairInput[j]) = IdOf(RepairInput[i])})

SharedIds ==
    {IdOf(RepairInput[i]) : i \in {j \in DOMAIN RepairInput : OccurrenceNo(j) >= 2}}
        \ {NoneVal}

C22_DuplicatesRenamed ==
    pc = "repaired" =>
        \A i \in DOMAIN RepairInput :
            IdOf(RepairInput[i]) \in SharedIds =>
                /\ OccurrenceNo(i) = 1 =>
                      /\ IdOf(RepairOutput[i]) = IdOf(RepairInput[i])
                      /\ \A j \in DOMAIN RepairOutput :
                            IdOf(RepairOutput[j]) = IdOf(RepairInput[i]) => j = i
                /\ OccurrenceNo(i) >= 2 =>
                      IdOf(RepairOutput[i]) =
                          IdOf(RepairInput[i]) \o "_" \o ToString(OccurrenceNo(i) - 1)

(***************************************************************************)
(* C23.  Whenever the edge pass skips a flow s -> t because s is real, t   *)
(* is a gateway of gateway_chains and s has more than one outgoing flow,   *)
(* an edge (s, r) is still emitted for every real node r that              *)
(* find_real_targets(t) reaches; and when it skips s -> t because s is a   *)
(* gateway of gateway_chains and the real t has more than one incoming     *)
(* flow, an edge (r, t) is emitted for every real node r that              *)
(* find_real_sources(s) reaches.  The code breaks this on the diamond:     *)
(* t1 -> g1 and t1 -> g2 are skipped on the side of t1, g1 -> t2 and       *)
(* g2 -> t2 on the side of t2, and no other flow emits (t1, t2).           *)
(***************************************************************************)
\* gateway_chains of the run.
ChainsOfRun ==
    gateway_chains(original_flows(elements), build_gateway_map(elements))

\* The flow is not one of the event-based branch.
NotEventBased(flow) ==
    FlowLabel(flow, build_gateway_map(elements),
              gateway_directions(all_flows, build_gateway_map(elements))).gtype
        # "eventbasedgateway"

SkippedOnSourceSide(flow) ==
    /\ NotEventBased(flow)
    /\ Src(flow) \in real_nodes /\ Tgt(flow) \notin real_nodes
    /\ Tgt(flow) \in ChainsOfRun
    /\ Len(OutList(all_flows, Src(flow))) > 1

SkippedOnTargetSide(flow) ==
    /\ NotEventBased(flow)
    /\ Src(flow) \notin real_nodes /\ Tgt(flow) \in real_nodes
    /\ Src(flow) \in ChainsOfRun
    /\ Len(InList(all_flows, Tgt(flow))) > 1

C23_SuppressionLosesNothing ==
    pc = "done" =>
        \A i \in DOMAIN all_flows :
            /\ SkippedOnSourceSide(all_flows[i]) =>
                  \A r \in Range(RealTargets(all_flows, real_nodes, Tgt(all_flows[i]))) :
                      <<Src(all_flows[i]), r>> \in EmittedPairs
            /\ SkippedOnTargetSide(all_flows[i]) =>
                  \A r \in Range(RealSources(all_flows, real_nodes, Src(all_flows[i]))) :
                      <<r, Tgt(all_flows[i])>> \in EmittedPairs

(***************************************************************************)
(* C24.  For every node n of the rewritten flows, find_real_targets(n)     *)
(* returns the real nodes r for which the flows have a path                *)
(* n -> x1 -> ... -> xk -> r, k >= 0, whose intermediate nodes are all     *)
(* non-real, and no other node: the walk takes a real node and does not go *)
(* on through it.  find_real_sources is the same over the flows reversed.  *)
(***************************************************************************)
\* The non-real nodes that a path of non-real nodes leads to from the nodes
\* of `from`, along the flows (forward) or against them.
RECURSIVE NonRealClosure(_, _, _, _)
NonRealClosure(flows, real, from, forward) ==
    LET more ==
            {IF forward THEN Tgt(flows[i]) ELSE Src(flows[i]) :
                i \in {j \in DOMAIN flows :
                          (IF forward THEN Src(flows[j]) ELSE Tgt(flows[j])) \in from}}
            \ real
    IN  IF more \subseteq from THEN from
        ELSE NonRealClosure(flows, real, from \cup more, forward)

FirstRealAfter(flows, real, n) ==
    UNION {Range(OutList(flows, m)) : m \in NonRealClosure(flows, real, {n}, TRUE)}
    \cap real

FirstRealBefore(flows, real, n) ==
    UNION {Range(InList(flows, m)) : m \in NonRealClosure(flows, real, {n}, FALSE)}
    \cap real

C24_WalksFindFirstRealNodes ==
    pc = "done" =>
        \A n \in FlowNodes(all_flows) :
            /\ Range(RealTargets(all_flows, real_nodes, n))
                  = FirstRealAfter(all_flows, real_nodes, n)
            /\ Range(RealSources(all_flows, real_nodes, n))
                  = FirstRealBefore(all_flows, real_nodes, n)

\* A walk that goes through a gateway to a real node, with a flow that leaves
\* that real node for a node the walk does not return.
C24_Witness ==
    /\ pc = "done"
    /\ \E n \in FlowNodes(all_flows), i, j \in DOMAIN all_flows :
          /\ Src(all_flows[i]) \notin real_nodes \cup {n}
          /\ Src(all_flows[i]) \in NonRealClosure(all_flows, real_nodes, {n}, TRUE)
          /\ Tgt(all_flows[i]) \in real_nodes
          /\ Src(all_flows[j]) = Tgt(all_flows[i])
          /\ Tgt(all_flows[j]) \in real_nodes
          /\ Tgt(all_flows[j]) \notin Range(RealTargets(all_flows, real_nodes, n))

(***************************************************************************)
(* C25.  The direction of a gateway over the rewritten flows is SPLIT when *)
(* the gateway has more than one outgoing flow (whatever its incoming      *)
(* flows), otherwise JOIN when it has more than one incoming flow,         *)
(* otherwise SINGLE; an event-based gateway is SPLIT with any number of    *)
(* flows, none or one outgoing flow included.                              *)
(***************************************************************************)
OutDegree(flows, n) == Cardinality({i \in DOMAIN flows : Src(flows[i]) = n})
InDegree(flows, n) == Cardinality({i \in DOMAIN flows : Tgt(flows[i]) = n})

C25_GatewayDirections ==
    pc \in {"edges_pass", "done"} =>
        \A gid \in DOMAIN build_gateway_map(elements) :
            gateway_directions(all_flows, build_gateway_map(elements))[gid] =
                IF build_gateway_map(elements)[gid] = "eventbasedgateway" THEN "SPLIT"
                ELSE IF OutDegree(all_flows, gid) > 1 THEN "SPLIT"
                ELSE IF InDegree(all_flows, gid) > 1 THEN "JOIN"
                ELSE "SINGLE"

\* An event-based gateway with no outgoing flow and several incoming ones.
C25_Witness ==
    /\ pc = "done"
    /\ \E g \in DOMAIN build_gateway_map(elements) :
          /\ build_gateway_map(elements)[g] = "eventbasedgateway"
          /\ OutDegree(all_flows, g) = 0
          /\ InDegree(all_flows, g) > 1

(***************************************************************************)
(* C26.  The label of a rewritten flow is taken from the (type, direction) *)
(* of its source when the source is a gateway, else from those of its      *)
(* target when the target is a gateway, else it is GATEWAY when            *)
(* source_name contains "gateway", else MESSAGE_FLOW for a message flow    *)
(* and SEQUENCE_FLOW otherwise.  The label of a gateway is                 *)
(* PREFIX_DIRECTION when the direction is SPLIT or JOIN and PREFIX when it *)
(* is SINGLE, where PREFIX is GATEWAY for a type the code does not know.   *)
(* Every edge statement carries the label of the flow it was emitted for.  *)
(***************************************************************************)
PrefixOfType(gateway_type) ==
    CASE gateway_type = "exclusivegateway" -> "XOR"
      [] gateway_type = "parallelgateway" -> "AND"
      [] gateway_type = "inclusivegateway" -> "OR"
      [] gateway_type = "complexgateway" -> "COMPLEX"
      [] gateway_type = "eventbasedgateway" -> "EVENT_BASED"
      [] OTHER -> "GATEWAY"

DirectionOfGateway(g) ==
    IF build_gateway_map(elements)[g] = "eventbasedgateway" THEN "SPLIT"
    ELSE IF OutDegree(all_flows, g) > 1 THEN "SPLIT"
    ELSE IF InDegree(all_flows, g) > 1 THEN "JOIN"
    ELSE "SINGLE"

LabelOfGateway(g) ==
    IF DirectionOfGateway(g) = "SINGLE"
    THEN PrefixOfType(build_gateway_map(elements)[g])
    ELSE PrefixOfType(build_gateway_map(elements)[g]) \o "_" \o DirectionOfGateway(g)

LabelOfFlow(flow) ==
    IF Src(flow) \in DOMAIN build_gateway_map(elements) THEN LabelOfGateway(Src(flow))
    ELSE IF Tgt(flow) \in DOMAIN build_gateway_map(elements) THEN LabelOfGateway(Tgt(flow))
    ELSE IF "source_name" \in DOMAIN flow /\ flow["source_name"] = "Exclusive Gateway"
    THEN "GATEWAY"
    ELSE IF flow["flow_type"] = "messageflow" THEN "MESSAGE_FLOW"
    ELSE "SEQUENCE_FLOW"

C26_FlowLabels ==
    pc = "done" =>
        /\ \A i \in DOMAIN all_flows :
              FlowLabel(all_flows[i], build_gateway_map(elements),
                        gateway_directions(all_flows, build_gateway_map(elements))).rel_name
                  = LabelOfFlow(all_flows[i])
        /\ \A k \in EdgeIndexes :
              \E i \in DOMAIN all_flows :
                  /\ all_flows[i]["id"] = cypher[k].id
                  /\ cypher[k].type = LabelOfFlow(all_flows[i])

\* A message flow between tasks whose source_name names a gateway: its edge
\* is labelled GATEWAY; and an edge through a gateway of unknown type.
C26_Witness ==
    /\ pc = "done"
    /\ \E k \in EdgeIndexes, i \in DOMAIN all_flows :
          /\ all_flows[i]["id"] = cypher[k].id
          /\ all_flows[i]["flow_type"] = "messageflow"
          /\ Get(all_flows[i], "source_name", NoneVal) = "Exclusive Gateway"
          /\ Src(all_flows[i]) \in real_nodes /\ Tgt(all_flows[i]) \in real_nodes
          /\ cypher[k].type = "GATEWAY"

\* C27: validate_semantics reports BPMN 0301 for every message flow whose two
\* resolved endpoints are flow elements that do not lie in different pools,
\* and for no message flow between different pools; it reports BPMN 0202 for
\* every sequence flow whose endpoints lie in different pools.
MessageFlowsOf(d) == Get(Get(d, "result", EmptyDict), "messageFlows", <<>>)

IsFlowElement(d, id) ==
    \E i \in DOMAIN FlowElementsOf(d) : IdOf(FlowElementsOf(d)[i]) = id

InDifferentPools(d, a, b) ==
    /\ ~Falsy(get_pool(FlowElementsOf(d), a))
    /\ ~Falsy(get_pool(FlowElementsOf(d), b))
    /\ get_pool(FlowElementsOf(d), a) # get_pool(FlowElementsOf(d), b)

Reported(code, about) ==
    \E i \in DOMAIN semantics.errors :
        semantics.errors[i].code = code /\ semantics.errors[i].about = about

C27_PoolCrossingEnforced ==
    (args.entry = "validate_semantics" /\ pc # "semantics") =>
        /\ \A i \in DOMAIN MessageFlowsOf(data) :
              LET mf == MessageFlowsOf(data)[i]
              IN  (IsFlowElement(data, ResolveSource(mf))
                   /\ IsFlowElement(data, ResolveTarget(mf))) =>
                      (Reported("BPMN 0301", IdOf(mf))
                         <=> ~InDifferentPools(data, ResolveSource(mf), ResolveTarget(mf)))
        /\ \A i \in DOMAIN OfType(FlowElementsOf(data), "flow") :
              LET f == OfType(FlowElementsOf(data), "flow")[i]
              IN  (Lower(Get(f, "type", "")) = "sequenceflow"
                   /\ InDifferentPools(data, ResolveSource(f), ResolveTarget(f))) =>
                      Reported("BPMN 0202", IdOf(f))

\* C28: the synthesis of the invisible tasks preserves degrees.  In the
\* rewritten flows every node of the original flows has the in-degree and
\* the out-degree it has in the original flows, and every invisible task has
\* one incoming and one outgoing flow; so the gateway directions computed
\* from the rewritten flows are those of the original flows.
SynthesizedTasks == real_nodes \ DeclaredRealNodes(elements)

C28_DegreesPreserved ==
    pc \in {"edges_pass", "done"} =>
        /\ \A n \in FlowNodes(original_flows(elements)) :
              /\ OutDegree(all_flows, n) = OutDegree(original_flows(elements), n)
              /\ InDegree(all_flows, n) = InDegree(original_flows(elements), n)
        /\ \A t \in SynthesizedTasks :
              InDegree(all_flows, t) = 1 /\ OutDegree(all_flows, t) = 1
        /\ gateway_directions(all_flows, build_gateway_map(elements))
              = gateway_directions(original_flows(elements), build_gateway_map(elements))

\* Reached: an invisible task was synthesized behind a gateway that has more
\* than one outgoing flow.
C28_Witness ==
    /\ pc = "done"
    /\ SynthesizedTasks # {}
    /\ \E i \in DOMAIN original_flows(elements) :
          /\ IsGatewayFlow(original_flows(elements)[i], build_gateway_map(elements))
          /\ OutDegree(original_flows(elements), Src(original_flows(elements)[i])) > 1

\* C29: every emitted edge (a, b) is sound: the rewritten flows have a path
\* from a to b whose intermediate nodes are all non-real.
ReachedThroughNonReal(flows, real, a) ==
    UNION {Range(OutList(flows, m)) : m \in NonRealClosure(flows, real, {a}, TRUE)}

C29_EdgesFollowPaths ==
    \A i \in EdgeIndexes :
        cypher[i].b \in ReachedThroughNonReal(all_flows, real_nodes, cypher[i].a)

\* Reached: an edge emitted for a flow between two non-real nodes, whose
\* ends no single flow joins.
C29_Witness ==
    /\ pc = "done"
    /\ \E i \in EdgeIndexes, j \in DOMAIN all_flows :
          /\ Get(all_flows[j], "id", NoneVal) = cypher[i].id
          /\ Src(all_flows[j]) \notin real_nodes
          /\ Tgt(all_flows[j]) \notin real_nodes
          /\ \A k \in DOMAIN all_flows :
                ~(Src(all_flows[k]) = cypher[i].a /\ Tgt(all_flows[k]) = cypher[i].b)

\* C30: in the statements of generate_edges the CREATE statement of every
\* synthesized invisible task precedes every edge statement, and when the
\* function returns every synthesized task has its CREATE statement.
IsInvisibleCreate(stmt) == stmt.kind = "Activity" /\ stmt.type = "InvisibleTask"

C30_InvisibleTasksCreatedFirst ==
    /\ \A i, j \in DOMAIN cypher :
          (IsInvisibleCreate(cypher[i]) /\ cypher[j].kind = "Edge") => i < j
    /\ pc = "done" =>
          \A t \in SynthesizedTasks :
              \E i \in DOMAIN cypher : IsInvisibleCreate(cypher[i]) /\ cypher[i].id = t

\* Reached: generate_edges has returned two CREATE statements of invisible
\* tasks and an edge that ends at an invisible task.
C30_Witness ==
    /\ pc = "done"
    /\ Cardinality({i \in DOMAIN cypher : IsInvisibleCreate(cypher[i])}) >= 2
    /\ \E j \in EdgeIndexes : cypher[j].b \in SynthesizedTasks

====
